---- MODULE Spec2Model ----
(***************************************************************************)
(* Trip financial ledger engine of the TMS backend: trips, the agents'     *)
(* ledger and disputes, with one action per request handler of            *)
(* tripController.js, ledgerController.js and the dispute controller.      *)
(* Money is counted in units of 0.01 (one paisa), so the close tolerance   *)
(* 0.01 of closeTrip is Tol = 1.                                           *)
(***************************************************************************)
EXTENDS Integers, Sequences, FiniteSets, TLC

\* ---------------------------------------------------------------- bounds
MaxTrips == 1
MaxEntries == 3
MaxLedgerEntries == 5
MaxPayments == 2
MaxDisputes == 2
MaxClock == 2
MaxRequests == 2
MaxLrTrips == 2

\* Math.abs(finalBalance) > 0.01, in units of 0.01
Tol == 1

\* ---------------------------------------------------------------- universe
\* The user directory (models/User): ids and the names the handlers read.
Agents == {"a1", "a2"}
UserName(a) == IF a = "a1" THEN "Ravi" ELSE IF a = "a2" THEN "Raj Batta" ELSE "Unknown Agent"

None == ""

\* Strings of the model's universe that the expression /Beta|Batta/i matches.
BetaStrings == {"Raj Batta", "BETA-7"}

\* new RegExp(`^${trimmedLrNumber}$`, 'i'): case is ignored.
Lower(s) == IF s = "LR1" THEN "lr1" ELSE IF s = "LR2" THEN "lr2" ELSE s

AdvanceVals == {0, 1}
PayVals == {1, 2}
PayRoles == {"Agent", "Finance"}
CloseRoles == {"Agent", "Finance", "Admin", None, "Driver"}

AddFields == {"cess", "kata", "excessTonnage", "halting", "expenses", "others"}
DedFields == AddFields \cup {"beta"}

\* Request bodies of updateDeductions: the deduction fields a save carries.
Patches == {[cess |-> 1], [beta |-> 1], [cess |-> 1, beta |-> 1], [cess |-> 0, beta |-> 0]}

VARIABLES trips, ledger, disputes, nextId, clock, last, requests
vars == <<trips, ledger, disputes, nextId, clock, last, requests>>

\* ---------------------------------------------------------------- helpers
\* reduce((sum, p) => sum + (p.amount || 0), 0)
RECURSIVE SumAmounts(_)
SumAmounts(s) == IF s = <<>> THEN 0 ELSE Head(s).amount + SumAmounts(Tail(s))

Abs(x) == IF x < 0 THEN -x ELSE x

ZeroDeductions == [f \in DedFields |-> 0]

\* (cess + kata + excessTonnage + halting + expenses + others)
TotalAdditions(d) ==
  d["cess"] + d["kata"] + d["excessTonnage"] + d["halting"] + d["expenses"] + d["others"]

TotalPayments(t) == SumAmounts(t.onTripPayments)

\* A slip of sign: beta added to the balance instead of subtracted.
TripBalanceBetaAdded(t) ==
  (t.freight - t.advance) + TotalAdditions(t.deductions) + t.deductions["beta"]
    - TotalPayments(t)

\* initialBalance + totalAdditions - betaAmount - totalPayments
TripBalance(t) ==
  (t.freight - t.advance) + TotalAdditions(t.deductions) - t.deductions["beta"]
    - TotalPayments(t)

\* The fold every handler uses for an agent's balance: Ledger.find({agent})
\* reduced by direction.
Signed(e) == IF e.direction = "Credit" THEN e.amount ELSE -e.amount
RECURSIVE FoldBalance(_, _)
FoldBalance(led, a) ==
  IF led = <<>> THEN 0
  ELSE (IF Head(led).agent = a THEN Signed(Head(led)) ELSE 0) + FoldBalance(Tail(led), a)

NoDesc == [kind |-> "plain", lr |-> None, by |-> None]

\* description: { $regex: /Beta|Batta/i }
DescMatchesBeta(d) ==
  \/ d.kind = "beta"
  \/ d.lr \in BetaStrings
  \/ d.by \in BetaStrings

Entry(id, tripId, lr, ref, type, amount, balance, agent, direction, info, desc) ==
  [id |-> id, tripId |-> tripId, lrNumber |-> lr, ref |-> ref, type |-> type,
   amount |-> amount, balance |-> balance, agent |-> agent, direction |-> direction,
   isInformational |-> info, description |-> desc]

\* The last request and its outcome: the handler, whether it answered 2xx, and the
\* trip, role, agent and number (an amount, an id, a count) of the request or response.
Done(op, ok, t, role, agent, n) ==
  last' = [op |-> op, ok |-> ok, trip |-> t, role |-> role, agent |-> agent, n |-> n]

TripIds == DOMAIN trips

\* The requests in flight: a handler between two of its awaits holds the documents
\* it read (snap) and its position (pc).
ReqIds == 1..MaxRequests
Idle == [pc |-> "idle", op |-> None, t |-> 0, snap |-> <<>>, body |-> <<>>, posted |-> <<>>]
\* A new request takes the first free slot.
FreeSlot(r) == requests[r].pc = "idle" /\ \A k \in 1..(r - 1) : requests[k].pc # "idle"

Init ==
  /\ trips = <<>>
  /\ ledger = <<>>
  /\ disputes = <<>>
  /\ nextId = 1
  /\ clock = 1
  /\ last = [op |-> "init", ok |-> TRUE, trip |-> 0, role |-> None, agent |-> None, n |-> 0]
  /\ requests = [r \in ReqIds |-> Idle]

\* ---------------------------------------------------------------- createTrip
LrTaken(lr) ==
  \E i \in TripIds : Lower(trips[i].lrNumber) = Lower(lr) \/ Lower(trips[i].tripId) = Lower(lr)

\* A createTrip that debits the balance due (freight - advance) with the advance.
CreateTripFreightDebited(lr, tripId, isBulk, freightAmount, advancePaid, agentId) ==
  /\ IF LrTaken(lr)
     THEN /\ Done("createTrip", FALSE, 0, None, None, 0)
          /\ UNCHANGED <<requests, trips, ledger, disputes, nextId, clock>>
     ELSE LET freight == IF isBulk THEN 0 ELSE freightAmount
              advance == IF isBulk THEN 0 ELSE advancePaid
              balance == freight - advance
              id == Len(trips) + 1
              trip == [lrNumber |-> lr, tripId |-> IF tripId # None THEN tripId ELSE lr,
                       isBulk |-> isBulk,
                       freight |-> freight, advance |-> advance,
                       deductions |-> ZeroDeductions, addedBy |-> None,
                       onTripPayments |-> <<>>, balance |-> balance,
                       finalBalance |-> 0, status |-> "Active", agent |-> agentId,
                       closedBy |-> None, closedAt |-> 0]
          IN /\ trips' = Append(trips, trip)
             /\ IF ~isBulk
                THEN /\ ledger' = Append(ledger,
                           Entry(nextId, id, lr, 0, "Trip Created", freight, balance,
                                 agentId, "Debit", FALSE, NoDesc))
                     /\ nextId' = nextId + 1
                ELSE UNCHANGED <<ledger, nextId>>
             /\ Done("createTrip", TRUE, id, None, None, 0)
             /\ UNCHANGED <<requests, disputes, clock>>

\* The document createTrip hands to Trip.create.
NewTrip(lr, tripId, isBulk, freightAmount, advancePaid, agentId) ==
  LET freight == IF isBulk THEN 0 ELSE freightAmount
      advance == IF isBulk THEN 0 ELSE advancePaid
  IN [lrNumber |-> lr, tripId |-> IF tripId # None THEN tripId ELSE lr,
      isBulk |-> isBulk,
      freight |-> freight, advance |-> advance,
      deductions |-> ZeroDeductions, addedBy |-> None,
      onTripPayments |-> <<>>, balance |-> freight - advance,
      finalBalance |-> 0, status |-> "Active", agent |-> agentId,
      closedBy |-> None, closedAt |-> 0]

\* Trip.create and the Trip Created entry: createTrip after its duplicate check.
StoreTrip(lr, tripId, isBulk, freightAmount, advancePaid, agentId) ==
  LET trip == NewTrip(lr, tripId, isBulk, freightAmount, advancePaid, agentId)
      id == Len(trips) + 1
  IN /\ trips' = Append(trips, trip)
     /\ IF ~isBulk /\ trip.advance > 0
        THEN /\ ledger' = Append(ledger,
                   Entry(nextId, id, lr, 0, "Trip Created", trip.advance, trip.balance,
                         agentId, "Debit", FALSE, NoDesc))
             /\ nextId' = nextId + 1
        ELSE UNCHANGED <<ledger, nextId>>
     /\ Done("createTrip", TRUE, id, None, None, 0)
     /\ UNCHANGED <<disputes, clock>>

CreateTrip(lr, tripId, isBulk, freightAmount, advancePaid, agentId) ==
  IF LrTaken(lr)
  THEN /\ Done("createTrip", FALSE, 0, None, None, 0)
       /\ UNCHANGED <<requests, trips, ledger, disputes, nextId, clock>>
  ELSE /\ StoreTrip(lr, tripId, isBulk, freightAmount, advancePaid, agentId)
       /\ UNCHANGED requests

\* createTrip await by await: the duplicate check (Trip.findOne), and after the
\* User lookup the Trip.create.
CreateTripCheck(r, lr, tripId, isBulk, freightAmount, advancePaid, agentId) ==
  /\ FreeSlot(r)
  /\ IF LrTaken(lr)
     THEN /\ Done("createTrip", FALSE, 0, None, None, 0)
          /\ UNCHANGED <<requests, trips, ledger, disputes, nextId, clock>>
     ELSE /\ requests' = [requests EXCEPT ![r] =
                            [pc |-> "create", op |-> "createTrip", t |-> 0, snap |-> <<>>,
                             body |-> [lrNumber |-> lr, tripId |-> tripId,
                                       isBulk |-> isBulk, freightAmount |-> freightAmount,
                                       advancePaid |-> advancePaid, agentId |-> agentId],
                             posted |-> <<>>]]
          /\ UNCHANGED <<trips, ledger, disputes, nextId, clock, last>>

CreateTripCreate(r) ==
  LET q == requests[r]
  IN /\ q.pc = "create" /\ q.op = "createTrip"
     /\ StoreTrip(q.body.lrNumber, q.body.tripId, q.body.isBulk, q.body.freightAmount,
                  q.body.advancePaid, q.body.agentId)
     /\ requests' = [requests EXCEPT ![r] = Idle]

\* ---------------------------------------------------------------- addPayment
\* The Finance pair in the other order: the Debit first, the Credit after it.
PaymentEntriesDebitFirst(led, nid, t, trip, target, amount, isFinance) ==
  IF isFinance
  THEN LET agentBalance == FoldBalance(led, target)
       IN <<Entry(nid, t, trip.lrNumber, 0, "On-Trip Payment", amount, trip.balance,
                  target, "Debit", FALSE, NoDesc),
            Entry(nid + 1, t, trip.lrNumber, 0, "Top-up", amount, agentBalance + amount,
                  target, "Credit", FALSE, NoDesc)>>
  ELSE <<Entry(nid, t, trip.lrNumber, 0, "On-Trip Payment", amount,
               trip.balance, target, "Debit", FALSE, NoDesc)>>

\* The ledger entries addPayment posts after the trip is saved.
PaymentEntries(led, nid, t, trip, target, amount, isFinance) ==
  IF isFinance
  THEN LET agentBalance == FoldBalance(led, target)
       IN <<Entry(nid, t, trip.lrNumber, 0, "Top-up", amount, agentBalance + amount,
                  target, "Credit", FALSE, NoDesc),
            Entry(nid + 1, t, trip.lrNumber, 0, "On-Trip Payment", amount, trip.balance,
                  target, "Debit", FALSE, NoDesc)>>
  ELSE LET debit == Entry(nid, t, trip.lrNumber, 0, "On-Trip Payment", amount,
                          trip.balance, target, "Debit", FALSE, NoDesc)
           tripCreatorBalance == FoldBalance(Append(led, debit), trip.agent)
       IN IF trip.agent # target
          THEN <<debit,
                 Entry(nid + 1, t, trip.lrNumber, 0, "On-Trip Payment", amount,
                       tripCreatorBalance, trip.agent, "Debit", TRUE, NoDesc)>>
          ELSE <<debit>>

\* A status check that turns away Completed trips only.
PaymentRefusedIfCompleted(trip, userRole, agentId, userId) ==
  \/ trip.status = "Completed"
  \/ userRole = "Finance" /\ agentId = None
  \/ userRole # "Finance" /\ userId = None

\* The 400 answers of addPayment: a trip that is not Active, a Finance payment with
\* no agent selected, any other payment with no user id.
PaymentRefused(trip, userRole, agentId, userId) ==
  \/ trip.status # "Active"
  \/ userRole = "Finance" /\ agentId = None
  \/ userRole # "Finance" /\ userId = None

\* A target that falls back: the selected agent whenever one is given, whatever
\* the role, and the user otherwise.
TargetAgentIdFallback(userRole, agentId, userId) ==
  IF agentId # None THEN agentId ELSE userId

\* targetAgentId: the selected agent for Finance, the paying user otherwise.
TargetAgentId(userRole, agentId, userId) ==
  IF userRole = "Finance" THEN agentId ELSE userId

AddPayment(t, amount, userRole, agentId, userId) ==
  /\ t \in TripIds
  /\ IF PaymentRefused(trips[t], userRole, agentId, userId)
     THEN /\ Done("addPayment", FALSE, t, userRole, None, 0)
          /\ UNCHANGED <<requests, trips, ledger, disputes, nextId, clock>>
     ELSE LET targetAgentId == TargetAgentId(userRole, agentId, userId)
              payment == [amount |-> amount,
                          addedByRole |-> IF userRole = None THEN "Agent" ELSE userRole]
              pushed == [trips[t] EXCEPT !.onTripPayments = Append(@, payment)]
              trip == [pushed EXCEPT !.balance = TripBalance(pushed)]
              posted == PaymentEntries(ledger, nextId, t, trip, targetAgentId, amount,
                                       userRole = "Finance")
          IN /\ Len(trips[t].onTripPayments) < MaxPayments
             /\ trips' = [trips EXCEPT ![t] = trip]
             /\ ledger' = ledger \o posted
             /\ nextId' = nextId + Len(posted)
             /\ Done("addPayment", TRUE, t, userRole, None, 0)
             /\ UNCHANGED <<requests, disputes, clock>>

\* ---------------------------------------------------------------- updateDeductions
\* trip.deductions = { ...trip.deductions, ...req.body }
\* Variant: the trip keeps deductions.addedBy of the request.
StoredAddedByKept(old, addedBy) == IF addedBy # None THEN addedBy ELSE old

\* trip.deductions.addedBy after `trip.deductions = {...trip.deductions, ...req.body}`:
\* the Trip schema has no such path under deductions and is strict, so the
\* assigned value is dropped and the field stays unset.
StoredAddedBy(old, addedBy) == old

MergeDeductions(old, patch) ==
  [f \in DedFields |-> IF f \in DOMAIN patch THEN patch[f] ELSE old[f]]

AdditionsDesc(trip, by) == [kind |-> "additions", lr |-> trip.lrNumber, by |-> UserName(by)]
BetaDesc(trip, by) == [kind |-> "beta", lr |-> trip.lrNumber, by |-> UserName(by)]

\* Ledger.findOne({$or: [{tripId}, {lrNumber}], agent, agentId, type: 'Settlement',
\* direction: 'Debit', description: ...}): the positions of the entries that match.
SettlementMatches(led, t, lr, agent, wantBeta) ==
  {i \in 1..Len(led) :
     /\ led[i].tripId = t \/ led[i].lrNumber = lr
     /\ led[i].agent = agent
     /\ led[i].type = "Settlement"
     /\ led[i].direction = "Debit"
     /\ DescMatchesBeta(led[i].description) = wantBeta}

\* The create-or-update of the additions entry; findOne without a sort may return
\* any matching entry, so the result is a set of ledgers.
UpsertAdditions(st, t, trip, by, total) ==
  LET led == st.led
      m == SettlementMatches(led, t, trip.lrNumber, by, FALSE)
      agentBalance == FoldBalance(led, by)
  IN IF m = {}
     THEN {[led |-> Append(led, Entry(st.nid, t, trip.lrNumber, 0, "Settlement", total,
                                      agentBalance - total, by, "Debit", FALSE,
                                      AdditionsDesc(trip, by))),
            nid |-> st.nid + 1]}
     ELSE {LET saved == [led EXCEPT ![i].amount = total,
                                    ![i].description = AdditionsDesc(trip, by)]
           IN [led |-> [saved EXCEPT ![i].balance = FoldBalance(saved, by)],
               nid |-> st.nid] : i \in m}

UpsertBeta(st, t, trip, by, betaAmount) ==
  LET led == st.led
      m == SettlementMatches(led, t, trip.lrNumber, by, TRUE)
      agentBalance == FoldBalance(led, by)
  IN IF m = {}
     THEN {[led |-> Append(led, Entry(st.nid, t, trip.lrNumber, 0, "Settlement", betaAmount,
                                      agentBalance - betaAmount, by, "Debit", FALSE,
                                      BetaDesc(trip, by))),
            nid |-> st.nid + 1]}
     ELSE {[led |-> [led EXCEPT ![i].amount = betaAmount,
                                ![i].description = BetaDesc(trip, by),
                                ![i].balance = agentBalance],
            nid |-> st.nid] : i \in m}

\* The ledger part of updateDeductions: every ledger (with the next id) it can leave.
DeductionLedgers(led, nid, t, trip, by) ==
  LET total == TotalAdditions(trip.deductions)
      betaAmount == trip.deductions["beta"]
      st0 == [led |-> led, nid |-> nid]
      afterAdd == IF total > 0 THEN UpsertAdditions(st0, t, trip, by, total) ELSE {st0}
  IN IF (total > 0 \/ betaAmount > 0) /\ by # None /\ trip.status = "Active"
     THEN UNION {IF betaAmount > 0 THEN UpsertBeta(st, t, trip, by, betaAmount) ELSE {st}
                 : st \in afterAdd}
     ELSE {st0}

UpdateDeductions(t, patch, addedBy) ==
  /\ t \in TripIds
  /\ IF trips[t].status = "Completed"
     THEN /\ Done("updateDeductions", FALSE, t, None, addedBy, 0)
          /\ UNCHANGED <<requests, trips, ledger, disputes, nextId, clock>>
     ELSE LET merged == [trips[t] EXCEPT
                           !.deductions = MergeDeductions(@, patch),
                           !.addedBy = StoredAddedBy(@, addedBy)]
              trip == [merged EXCEPT !.balance = TripBalance(merged)]
              deductionsAddedBy == IF addedBy # None THEN addedBy
                                   ELSE IF trip.addedBy # None THEN trip.addedBy
                                   ELSE trip.agent
          IN \E st \in DeductionLedgers(ledger, nextId, t, trip, deductionsAddedBy) :
               /\ trips' = [trips EXCEPT ![t] = trip]
               /\ ledger' = st.led
               /\ nextId' = st.nid
               /\ Done("updateDeductions", TRUE, t, None, deductionsAddedBy, 0)
               /\ UNCHANGED <<requests, disputes, clock>>

\* ---------------------------------------------------------------- closeTrip
\* Dispute.findOne({tripId, status: 'Open'})
\* Variant: the dispute lookup finds nothing.
OpenDisputeIgnored(t) == FALSE

OpenDispute(t) == \E d \in DOMAIN disputes : disputes[d].tripId = t /\ disputes[d].status = "Open"

IsFinance(p) == p.addedByRole = "Finance"
IsNotFinance(p) == p.addedByRole # "Finance"

\* initialBalance + totalAdditions - betaAmount - agentPayments + financePayments
\* Variant: Finance payments subtracted like the others.
FinalBalanceAllSubtracted(t) ==
  (t.freight - t.advance) + TotalAdditions(t.deductions) - t.deductions["beta"]
    - SumAmounts(t.onTripPayments)

FinalBalance(t) ==
  (t.freight - t.advance) + TotalAdditions(t.deductions) - t.deductions["beta"]
    - SumAmounts(SelectSeq(t.onTripPayments, IsNotFinance))
    + SumAmounts(SelectSeq(t.onTripPayments, IsFinance))

\* The rule as the 400 message of the first branch suggests it: an agent whose own
\* balance covers the final amount may close.
CloseRejectedUnlessFunded(closedByRole, finalBalance, closingAgentBalance) ==
  /\ closedByRole = "Agent"
  /\ Abs(finalBalance) > Tol
  /\ IF finalBalance > Tol THEN closingAgentBalance < finalBalance ELSE TRUE

\* if (closedByRole === 'Agent' && Math.abs(finalBalance) > 0.01): the closing
\* agent's balance is folded and compared, and every branch answers 400.
CloseRejected(closedByRole, finalBalance, closingAgentBalance) ==
  /\ closedByRole = "Agent"
  /\ Abs(finalBalance) > Tol
  /\ IF finalBalance > Tol
     THEN (IF closingAgentBalance < finalBalance THEN TRUE ELSE TRUE)
     ELSE TRUE

\* Date.now() / new Date(): millisecond resolution, so two requests may read the
\* same value.
Now == {c \in {clock, clock + 1} : c <= MaxClock}

\* A bulk close that settles like a regular one: finalBalance is written.
CloseBulkSettles(trip, now) ==
  [trip EXCEPT !.status = "Completed", !.closedAt = now, !.closedBy = trip.agent,
               !.finalBalance = FinalBalance(trip)]

\* The bulk branch of closeTrip.
CloseBulk(trip, now) ==
  [trip EXCEPT !.status = "Completed", !.closedAt = now, !.closedBy = trip.agent]

\* The Settlement entries closeTrip posts to the trip creator when another agent
\* saved the deductions: created only when findOne finds none.
CreatorSettlement(led, nid, t, trip) ==
  LET total == TotalAdditions(trip.deductions)
      betaAmount == trip.deductions["beta"]
      by == IF trip.addedBy # None THEN trip.addedBy ELSE trip.agent
      creator == trip.agent
      hasAdd == \E i \in 1..Len(led) :
                  /\ led[i].tripId = t /\ led[i].agent = creator
                  /\ led[i].type = "Settlement" /\ led[i].direction = "Debit"
                  /\ ~DescMatchesBeta(led[i].description)
      led1 == IF total > 0 /\ ~hasAdd
              THEN Append(led, Entry(nid, t, trip.lrNumber, 0, "Settlement", total,
                                     FoldBalance(led, creator) - total, creator, "Debit",
                                     FALSE, AdditionsDesc(trip, by)))
              ELSE led
      nid1 == nid + (Len(led1) - Len(led))
      hasBeta == \E i \in 1..Len(led1) :
                   /\ led1[i].tripId = t /\ led1[i].agent = creator
                   /\ led1[i].type = "Settlement" /\ led1[i].direction = "Debit"
                   /\ DescMatchesBeta(led1[i].description)
      led2 == IF betaAmount > 0 /\ ~hasBeta
              THEN Append(led1, Entry(nid1, t, trip.lrNumber, 0, "Settlement", betaAmount,
                                      FoldBalance(led1, creator) - betaAmount, creator,
                                      "Debit", FALSE, BetaDesc(trip, by)))
              ELSE led1
  IN IF (total > 0 \/ betaAmount > 0) /\ creator # by THEN led2 ELSE led

\* The Trip Closed entry and the Beta/Batta credit posted after the trip is saved.
\* The Trip Closed entry of the closing actor.
TripClosedEntry(led, nid, t, trip, closingAgentId, finalBalance) ==
  Entry(nid, t, trip.lrNumber, 0, "Trip Closed", finalBalance,
        FoldBalance(led, closingAgentId), closingAgentId, "Debit", TRUE, NoDesc)

\* The Beta/Batta Credit of the trip's agent.
BetaCreditEntry(led, nid, t, trip) ==
  Entry(nid, t, trip.lrNumber, 0, "Beta/Batta Credit", trip.deductions["beta"],
        FoldBalance(led, trip.agent) + trip.deductions["beta"], trip.agent,
        "Credit", FALSE, NoDesc)

CloseEntries(led, nid, t, trip, closingAgentId, closedByRole, finalBalance) ==
  LET led1 == Append(led, TripClosedEntry(led, nid, t, trip, closingAgentId, finalBalance))
  IN IF trip.deductions["beta"] > 0
     THEN Append(led1, BetaCreditEntry(led1, nid + 1, t, trip))
     ELSE led1

CloseTrip(t, forceClose, closedBy, closedByRole) ==
  /\ t \in TripIds
  /\ \E now \in Now :
       LET trip == trips[t]
           finalBalance == FinalBalance(trip)
       IN IF OpenDispute(t) /\ ~forceClose
          THEN /\ Done("closeTrip", FALSE, t, closedByRole, closedBy, 0)
               /\ UNCHANGED <<requests, trips, ledger, disputes, nextId, clock>>
          ELSE IF trip.isBulk
          THEN /\ trips' = [trips EXCEPT ![t] = CloseBulk(trip, now)]
               /\ clock' = now
               /\ Done("closeTrip", TRUE, t, closedByRole, closedBy, 0)
               /\ UNCHANGED <<requests, ledger, disputes, nextId>>
          ELSE IF CloseRejected(closedByRole, finalBalance, FoldBalance(ledger, closedBy))
          THEN /\ Done("closeTrip", FALSE, t, closedByRole, closedBy, 0)
               /\ UNCHANGED <<requests, trips, ledger, disputes, nextId, clock>>
          ELSE LET closingAgentId == IF closedBy # None THEN closedBy ELSE trip.agent
                   led1 == CreatorSettlement(ledger, nextId, t, trip)
                   nid1 == nextId + (Len(led1) - Len(ledger))
                   led2 == CloseEntries(led1, nid1, t, trip, closingAgentId, closedByRole,
                                        finalBalance)
               IN /\ trips' = [trips EXCEPT ![t] =
                                 [trip EXCEPT !.status = "Completed",
                                              !.finalBalance = finalBalance,
                                              !.closedAt = now,
                                              !.closedBy = closingAgentId]]
                  /\ ledger' = led2
                  /\ nextId' = nextId + (Len(led2) - Len(ledger))
                  /\ clock' = now
                  /\ Done("closeTrip", TRUE, t, closedByRole, closedBy, 0)
                  /\ UNCHANGED <<requests, disputes>>

\* ---------------------------------------------------------------- updateTrip
\* if (req.body.status !== undefined) trip.status = req.body.status
UpdateTrip(t, status) ==
  /\ t \in TripIds
  /\ trips' = [trips EXCEPT ![t].status = IF status # None THEN status ELSE @]
  /\ Done("updateTrip", TRUE, t, None, None, 0)
  /\ UNCHANGED <<requests, ledger, disputes, nextId, clock>>

\* ---------------------------------------------------------------- createDispute
CreateDispute(t, agentId) ==
  /\ t \in TripIds
  /\ Len(disputes) < MaxDisputes
  /\ IF \/ agentId = None
        \/ trips[t].agent # agentId
        \/ trips[t].status # "Active"
        \/ OpenDispute(t)
     THEN /\ Done("createDispute", FALSE, t, None, None, 0)
          /\ UNCHANGED <<requests, trips, ledger, disputes, nextId, clock>>
     ELSE /\ disputes' = Append(disputes, [tripId |-> t, status |-> "Open"])
          /\ trips' = [trips EXCEPT ![t].status = "In Dispute"]
          /\ Done("createDispute", TRUE, t, None, None, 0)
          /\ UNCHANGED <<requests, ledger, nextId, clock>>

\* ---------------------------------------------------------------- resolveDispute
DedOrder == <<"cess", "kata", "excessTonnage", "halting", "expenses", "others", "beta">>

\* `Dispute - ${fieldName.charAt(0).toUpperCase() + fieldName.slice(1)} Correction`
TypeLabel(f) ==
  CASE f = "cess" -> "Dispute - Cess Correction"
    [] f = "kata" -> "Dispute - Kata Correction"
    [] f = "excessTonnage" -> "Dispute - ExcessTonnage Correction"
    [] f = "halting" -> "Dispute - Halting Correction"
    [] f = "expenses" -> "Dispute - Expenses Correction"
    [] f = "others" -> "Dispute - Others Correction"
    [] f = "beta" -> "Dispute - Beta Correction"

\* Variant: deduction corrections with the directions of a freight correction.
DeductionDirectionReversed(diff) == IF diff > 0 THEN "Credit" ELSE "Debit"

\* direction = diff > 0 ? 'Debit' : 'Credit' (both the Addition and Deduction types)
DeductionDirection(diff) == IF diff > 0 THEN "Debit" ELSE "Credit"
\* let direction = freightDiff > 0 ? 'Credit' : 'Debit'
FreightDirection(diff) == IF diff > 0 THEN "Credit" ELSE "Debit"
\* let direction = advanceDiff > 0 ? 'Debit' : 'Credit'
AdvanceDirection(diff) == IF diff > 0 THEN "Debit" ELSE "Credit"

\* processDeduction over the fields in call order: the entries posted, one per
\* supplied field whose diff is not 0.
RECURSIVE ProcessDeductions(_, _, _, _, _, _)
ProcessDeductions(fields, c, old, nid, t, trip) ==
  IF fields = <<>> THEN <<>>
  ELSE LET f == Head(fields)
           diff == IF f \in DOMAIN c THEN c[f] - old[f] ELSE 0
       IN IF diff = 0
          THEN ProcessDeductions(Tail(fields), c, old, nid, t, trip)
          ELSE <<Entry(nid, t, trip.lrNumber, 0, TypeLabel(f), Abs(diff), 0, trip.agent,
                       DeductionDirection(diff), FALSE, NoDesc)>>
               \o ProcessDeductions(Tail(fields), c, old, nid + 1, t, trip)

\* Entries posted for every supplied field, without the test of the diff against 0.
FreightAdvanceEntriesAlways(c, old, nid, t, trip) ==
  LET freightDiff == IF "freight" \in DOMAIN c THEN c["freight"] - old.freight ELSE 0
      advanceDiff == IF "advance" \in DOMAIN c THEN c["advance"] - old.advance ELSE 0
      fe == IF "freight" \in DOMAIN c
            THEN <<Entry(nid, t, trip.lrNumber, 0, "Dispute - Freight Correction",
                         Abs(freightDiff), 0, trip.agent, FreightDirection(freightDiff),
                         FALSE, NoDesc)>>
            ELSE <<>>
      ae == IF "advance" \in DOMAIN c
            THEN <<Entry(nid + Len(fe), t, trip.lrNumber, 0, "Dispute - Advance Correction",
                         Abs(advanceDiff), 0, trip.agent, AdvanceDirection(advanceDiff),
                         FALSE, NoDesc)>>
            ELSE <<>>
  IN fe \o ae

\* The freight and advance corrections' entries, posted after the trip is saved.
FreightAdvanceEntries(c, old, nid, t, trip) ==
  LET freightDiff == IF "freight" \in DOMAIN c THEN c["freight"] - old.freight ELSE 0
      advanceDiff == IF "advance" \in DOMAIN c THEN c["advance"] - old.advance ELSE 0
      fe == IF freightDiff # 0
            THEN <<Entry(nid, t, trip.lrNumber, 0, "Dispute - Freight Correction",
                         Abs(freightDiff), 0, trip.agent, FreightDirection(freightDiff),
                         FALSE, NoDesc)>>
            ELSE <<>>
      ae == IF advanceDiff # 0
            THEN <<Entry(nid + Len(fe), t, trip.lrNumber, 0, "Dispute - Advance Correction",
                         Abs(advanceDiff), 0, trip.agent, AdvanceDirection(advanceDiff),
                         FALSE, NoDesc)>>
            ELSE <<>>
  IN fe \o ae

\* Variant: the corrected fields saved with the balance left as it was.
CorrectedTripStaleBalance(trip, c) ==
  [trip EXCEPT
     !.deductions = [f \in DedFields |-> IF f \in DOMAIN c THEN c[f] ELSE @[f]],
     !.freight = IF "freight" \in DOMAIN c THEN c["freight"] ELSE @,
     !.advance = IF "advance" \in DOMAIN c THEN c["advance"] ELSE @,
     !.status = "Active"]

\* The trip as resolveDispute saves it.
CorrectedTrip(trip, c) ==
  LET applied == [trip EXCEPT
                    !.deductions = [f \in DedFields |->
                                      IF f \in DOMAIN c THEN c[f] ELSE @[f]],
                    !.freight = IF "freight" \in DOMAIN c THEN c["freight"] ELSE @,
                    !.advance = IF "advance" \in DOMAIN c THEN c["advance"] ELSE @]
  IN [applied EXCEPT !.balance = TripBalance(applied), !.status = "Active",
                     !.lrNumber = IF "lrNumber" \in DOMAIN c THEN c["lrNumber"] ELSE @]

\* Variant: the status of the dispute is not looked at.
AlreadyResolvedIgnored(dispute) == FALSE

\* if (dispute.status === 'Resolved') return res.status(400)
AlreadyResolved(dispute) == dispute.status = "Resolved"

ResolveDispute(d, c) ==
  /\ d \in DOMAIN disputes
  /\ IF AlreadyResolved(disputes[d])
     THEN /\ Done("resolveDispute", FALSE, disputes[d].tripId, None, None, 0)
          /\ UNCHANGED <<requests, trips, ledger, disputes, nextId, clock>>
     ELSE LET t == disputes[d].tripId
              old == trips[t]
              renamed == [old EXCEPT !.lrNumber = IF "lrNumber" \in DOMAIN c
                                                  THEN c["lrNumber"] ELSE @]
              dedEntries == ProcessDeductions(DedOrder, c, old.deductions, nextId, t,
                                              renamed)
              faEntries == FreightAdvanceEntries(c, old, nextId + Len(dedEntries), t,
                                                 renamed)
              posted == dedEntries \o faEntries
          IN /\ disputes' = [disputes EXCEPT ![d].status = "Resolved"]
             /\ trips' = [trips EXCEPT ![t] = CorrectedTrip(old, c)]
             /\ ledger' = ledger \o posted
             /\ nextId' = nextId + Len(posted)
             /\ Done("resolveDispute", TRUE, t, None, None, Len(posted))
             /\ UNCHANGED <<requests, clock>>

\* ---------------------------------------------------------------- ledger
\* GET /api/ledger/balance/:agentId
GetAgentBalance(agentId) ==
  /\ Done("getAgentBalance", TRUE, 0, None, agentId, FoldBalance(ledger, agentId))
  /\ UNCHANGED <<requests, trips, ledger, disputes, nextId, clock>>

TopUpEntries(led, nid, agentId, amountNum, isVirtual, now) ==
  IF isVirtual
  THEN LET agentBalance == FoldBalance(led, agentId)
       IN <<Entry(nid, 0, "VIRTUAL-TOPUP", now, "Virtual Top-up", amountNum,
                  agentBalance + amountNum, agentId, "Credit", FALSE, NoDesc),
            Entry(nid + 1, 0, "VIRTUAL-TOPUP", now, "Virtual Expense", amountNum,
                  agentBalance, agentId, "Debit", FALSE, NoDesc)>>
  ELSE <<Entry(nid, 0, "TOPUP", now, "Top-up", amountNum, 0, agentId, "Credit", FALSE,
               NoDesc)>>

AddTopUp(amount, agentId, isVirtual) ==
  IF agentId = None
  THEN /\ Done("addTopUp", FALSE, 0, None, agentId, 0)
       /\ UNCHANGED <<requests, trips, ledger, disputes, nextId, clock>>
  ELSE LET posted == TopUpEntries(ledger, nextId, agentId, amount, isVirtual, clock)
       IN /\ ledger' = ledger \o posted
          /\ nextId' = nextId + Len(posted)
          /\ Done("addTopUp", TRUE, 0, None, agentId, amount)
          /\ UNCHANGED <<requests, trips, disputes, clock>>

\* A transfer whose second entry is a Debit too.
TransferEntriesBothDebit(led, nid, senderAgentId, receiverAgentId, transferAmount, now) ==
  LET senderBalance == FoldBalance(led, senderAgentId)
      debit == Entry(nid, 0, "TRANSFER", now, "Agent Transfer", transferAmount,
                     senderBalance - transferAmount, senderAgentId, "Debit", FALSE, NoDesc)
      receiverBalance == FoldBalance(Append(led, debit), receiverAgentId)
  IN <<debit,
       Entry(nid + 1, 0, "TRANSFER", now, "Agent Transfer", transferAmount,
             receiverBalance + transferAmount, receiverAgentId, "Debit", FALSE, NoDesc)>>

\* The sender's Debit and the receiver's Credit, both under `TRANSFER-${Date.now()}`.
TransferEntries(led, nid, senderAgentId, receiverAgentId, transferAmount, now) ==
  LET senderBalance == FoldBalance(led, senderAgentId)
      debit == Entry(nid, 0, "TRANSFER", now, "Agent Transfer", transferAmount,
                     senderBalance - transferAmount, senderAgentId, "Debit", FALSE, NoDesc)
      receiverBalance == FoldBalance(Append(led, debit), receiverAgentId)
  IN <<debit,
       Entry(nid + 1, 0, "TRANSFER", now, "Agent Transfer", transferAmount,
             receiverBalance + transferAmount, receiverAgentId, "Credit", FALSE, NoDesc)>>

TransferToAgent(senderAgentId, receiverAgentId, amount) ==
  IF \/ senderAgentId = None \/ receiverAgentId = None
     \/ senderAgentId = receiverAgentId
     \/ FoldBalance(ledger, senderAgentId) < amount
  THEN /\ Done("transferToAgent", FALSE, 0, None, senderAgentId, amount)
       /\ UNCHANGED <<requests, trips, ledger, disputes, nextId, clock>>
  ELSE \E now \in Now :
         /\ ledger' = ledger \o TransferEntries(ledger, nextId, senderAgentId,
                                                receiverAgentId, amount, now)
         /\ nextId' = nextId + 2
         /\ clock' = now
         /\ Done("transferToAgent", TRUE, 0, None, senderAgentId, amount)
         /\ UNCHANGED <<requests, trips, disputes>>

\* const allowedTypes = ['Top-up', 'Virtual Top-up', 'Agent Transfer']
\* Variant: the expense side of a virtual top-up allowed as well.
AllowedTypesWithExpense == {"Top-up", "Virtual Top-up", "Agent Transfer", "Virtual Expense"}

AllowedTypes == {"Top-up", "Virtual Top-up", "Agent Transfer"}

\* Ledger.findById(id): the position of the entry, 0 when there is none.
PosOf(led, id) ==
  IF \E i \in 1..Len(led) : led[i].id = id
  THEN CHOOSE i \in 1..Len(led) : led[i].id = id
  ELSE 0

\* Ledger.findOne({lrNumber: entry.lrNumber, _id: {$ne: entry._id},
\*                 type: 'Agent Transfer', amount: entry.amount}): the positions that
\* match; findOne without a sort may return any of them.
TwinMatches(led, entry) ==
  {i \in 1..Len(led) :
     /\ led[i].lrNumber = entry.lrNumber /\ led[i].ref = entry.ref
     /\ led[i].id # entry.id
     /\ led[i].type = "Agent Transfer"
     /\ led[i].amount = entry.amount}

\* The twin lookup as a set of choices: a position, or 0 for none.
TwinChoices(led, entry) ==
  IF entry.type = "Agent Transfer" /\ TwinMatches(led, entry) # {}
  THEN TwinMatches(led, entry)
  ELSE {0}

UpdateLedgerEntry(id, amount) ==
  LET pos == PosOf(ledger, id)
  IN IF pos = 0 \/ ledger[pos].type \notin AllowedTypes
     THEN /\ Done("updateLedgerEntry", FALSE, 0, None, None, id)
          /\ UNCHANGED <<requests, trips, ledger, disputes, nextId, clock>>
     ELSE \E twin \in TwinChoices(ledger, ledger[pos]) :
            /\ ledger' = [i \in 1..Len(ledger) |->
                            IF i = pos \/ i = twin
                            THEN [ledger[i] EXCEPT !.amount = amount]
                            ELSE ledger[i]]
            /\ Done("updateLedgerEntry", TRUE, 0, None, None, id)
            /\ UNCHANGED <<requests, trips, disputes, nextId, clock>>

DeleteLedgerEntry(id) ==
  LET pos == PosOf(ledger, id)
  IN IF pos = 0 \/ ledger[pos].type \notin AllowedTypes
     THEN /\ Done("deleteLedgerEntry", FALSE, 0, None, None, id)
          /\ UNCHANGED <<requests, trips, ledger, disputes, nextId, clock>>
     ELSE \E twin \in TwinChoices(ledger, ledger[pos]) :
            /\ ledger' = SelectSeq(ledger,
                            LAMBDA e : e.id # id /\ (twin = 0 \/ e.id # ledger[twin].id))
            /\ Done("deleteLedgerEntry", TRUE, 0, None, None, id)
            /\ UNCHANGED <<requests, trips, disputes, nextId, clock>>

\* ---------------------------------------------------------------- requests in flight
\* addPayment and updateDeductions await by await: Trip.findById, trip.save() and
\* the Ledger calls are separate steps, and another request may run between them.
\* trip.save() writes the paths the handler modified: a $push of the new payment
\* and a $set of balance for addPayment, a $set of deductions and balance for
\* updateDeductions.
AddPaymentRead(r, t, amount, userRole, agentId, userId) ==
  /\ FreeSlot(r)
  /\ t \in TripIds
  /\ IF PaymentRefused(trips[t], userRole, agentId, userId)
     THEN /\ Done("addPayment", FALSE, t, userRole, None, 0)
          /\ UNCHANGED <<requests, trips, ledger, disputes, nextId, clock>>
     ELSE /\ requests' = [requests EXCEPT ![r] =
                            [pc |-> "save", op |-> "addPayment", t |-> t, snap |-> trips[t],
                             body |-> [amount |-> amount, userRole |-> userRole,
                                       target |-> TargetAgentId(userRole, agentId, userId)],
                             posted |-> <<>>]]
          /\ UNCHANGED <<trips, ledger, disputes, nextId, clock, last>>

AddPaymentSave(r) ==
  LET q == requests[r]
      payment == [amount |-> q.body.amount,
                  addedByRole |-> IF q.body.userRole = None THEN "Agent"
                                  ELSE q.body.userRole]
      pushed == [q.snap EXCEPT !.onTripPayments = Append(@, payment)]
      trip == [pushed EXCEPT !.balance = TripBalance(pushed)]
  IN /\ q.pc = "save" /\ q.op = "addPayment"
     /\ Len(trips[q.t].onTripPayments) < MaxPayments
     /\ trips' = [trips EXCEPT ![q.t].onTripPayments = Append(@, payment),
                               ![q.t].balance = trip.balance]
     /\ requests' = [requests EXCEPT ![r].pc = "post", ![r].snap = trip]
     /\ UNCHANGED <<ledger, disputes, nextId, clock, last>>

\* The entries the request has still to create, the first of them next.
PaymentEntriesLeft(q) ==
  LET done == Len(q.posted)
      all == PaymentEntries(ledger, nextId - done, q.t, q.snap, q.body.target,
                            q.body.amount, q.body.userRole = "Finance")
  IN SubSeq(all, done + 1, Len(all))

\* One Ledger.create of the request.
AddPaymentPost(r) ==
  LET q == requests[r]
  IN /\ q.pc = "post" /\ q.op = "addPayment"
     /\ PaymentEntriesLeft(q) # <<>>
     /\ ledger' = Append(ledger, Head(PaymentEntriesLeft(q)))
     /\ nextId' = nextId + 1
     /\ requests' = [requests EXCEPT ![r].posted = Append(@, nextId)]
     /\ UNCHANGED <<trips, disputes, clock, last>>

\* A Ledger call that throws: the catch logs it, the entries still to create are
\* skipped and the request is answered as a success.
AddPaymentLedgerFails(r) ==
  LET q == requests[r]
  IN /\ q.pc = "post" /\ q.op = "addPayment"
     /\ PaymentEntriesLeft(q) # <<>>
     /\ requests' = [requests EXCEPT ![r] = Idle]
     /\ Done("addPayment", TRUE, q.t, q.body.userRole, None, Len(q.posted))
     /\ UNCHANGED <<trips, ledger, disputes, nextId, clock>>

AddPaymentRespond(r) ==
  LET q == requests[r]
  IN /\ q.pc = "post" /\ q.op = "addPayment"
     /\ PaymentEntriesLeft(q) = <<>>
     /\ requests' = [requests EXCEPT ![r] = Idle]
     /\ Done("addPayment", TRUE, q.t, q.body.userRole, None, Len(q.posted))
     /\ UNCHANGED <<trips, ledger, disputes, nextId, clock>>

UpdateDeductionsRead(r, t, patch, addedBy) ==
  /\ FreeSlot(r)
  /\ t \in TripIds
  /\ IF trips[t].status = "Completed"
     THEN /\ Done("updateDeductions", FALSE, t, None, addedBy, 0)
          /\ UNCHANGED <<requests, trips, ledger, disputes, nextId, clock>>
     ELSE /\ requests' = [requests EXCEPT ![r] =
                            [pc |-> "save", op |-> "updateDeductions", t |-> t,
                             snap |-> trips[t],
                             body |-> [patch |-> patch, addedBy |-> addedBy],
                             posted |-> <<>>]]
          /\ UNCHANGED <<trips, ledger, disputes, nextId, clock, last>>

UpdateDeductionsSave(r) ==
  LET q == requests[r]
      merged == [q.snap EXCEPT
                   !.deductions = MergeDeductions(@, q.body.patch),
                   !.addedBy = StoredAddedBy(@, q.body.addedBy)]
      trip == [merged EXCEPT !.balance = TripBalance(merged)]
  IN /\ q.pc = "save" /\ q.op = "updateDeductions"
     /\ trips' = [trips EXCEPT ![q.t].deductions = trip.deductions,
                               ![q.t].addedBy = trip.addedBy,
                               ![q.t].balance = trip.balance]
     /\ requests' = [requests EXCEPT ![r].pc = "post", ![r].snap = trip]
     /\ UNCHANGED <<ledger, disputes, nextId, clock, last>>

\* The Settlement upserts and the answer.
UpdateDeductionsPost(r) ==
  LET q == requests[r]
      trip == q.snap
      deductionsAddedBy == IF q.body.addedBy # None THEN q.body.addedBy
                           ELSE IF trip.addedBy # None THEN trip.addedBy
                           ELSE trip.agent
  IN /\ q.pc = "post" /\ q.op = "updateDeductions"
     /\ \E st \in DeductionLedgers(ledger, nextId, q.t, trip, deductionsAddedBy) :
          /\ ledger' = st.led
          /\ nextId' = st.nid
     /\ requests' = [requests EXCEPT ![r] = Idle]
     /\ Done("updateDeductions", TRUE, q.t, None, deductionsAddedBy, 0)
     /\ UNCHANGED <<trips, disputes, clock>>

\* ---------------------------------------------------------------- failed writes
\* transferToAgent whose second Ledger.create throws: the Debit is already stored,
\* the catch deletes nothing, and it answers "Transfer successful" when the two
\* agents hold two entries or more, 500 otherwise.
\* Variant: a failed posting or audit record fails the request.
OutcomeStrict(saved, postingFails, auditFails) == saved /\ ~postingFails /\ ~auditFails

\* The outcome of a trip request whose trip.save() went through: the postings
\* sit in try blocks whose catch only logs, createAuditLog catches its own
\* errors, and the handler's outer catch answers with the stored trip.
Outcome(saved, postingFails, auditFails) == saved

\* createTrip with the Ledger.create of the advance or the audit record failing.
CreateTripPostingFails(lr, tripId, isBulk, freightAmount, advancePaid, agentId, postingFails, auditFails) ==
  LET trip == NewTrip(lr, tripId, isBulk, freightAmount, advancePaid, agentId)
      id == Len(trips) + 1
  IN /\ ~LrTaken(lr)
     /\ postingFails \/ auditFails
     /\ postingFails => (~isBulk /\ trip.advance > 0)
     /\ trips' = Append(trips, trip)
     /\ IF ~isBulk /\ trip.advance > 0 /\ ~postingFails
        THEN /\ ledger' = Append(ledger,
                   Entry(nextId, id, lr, 0, "Trip Created", trip.advance, trip.balance,
                         agentId, "Debit", FALSE, NoDesc))
             /\ nextId' = nextId + 1
        ELSE UNCHANGED <<ledger, nextId>>
     /\ Done("createTrip", Outcome(TRUE, postingFails, auditFails), id, None, None, 0)
     /\ UNCHANGED <<requests, disputes, clock>>

\* addPayment with one of its Ledger.create calls (the one after `kept`
\* entries) or the audit record failing.
AddPaymentPostingFails(t, amount, userRole, agentId, userId, kept, auditFails) ==
  /\ t \in TripIds
  /\ ~PaymentRefused(trips[t], userRole, agentId, userId)
  /\ LET targetAgentId == TargetAgentId(userRole, agentId, userId)
         payment == [amount |-> amount,
                     addedByRole |-> IF userRole = None THEN "Agent" ELSE userRole]
         pushed == [trips[t] EXCEPT !.onTripPayments = Append(@, payment)]
         trip == [pushed EXCEPT !.balance = TripBalance(pushed)]
         posted == PaymentEntries(ledger, nextId, t, trip, targetAgentId, amount,
                                  userRole = "Finance")
     IN /\ Len(trips[t].onTripPayments) < MaxPayments
        /\ kept \in 0..Len(posted)
        /\ kept < Len(posted) \/ auditFails
        /\ trips' = [trips EXCEPT ![t] = trip]
        /\ ledger' = ledger \o SubSeq(posted, 1, kept)
        /\ nextId' = nextId + kept
        /\ Done("addPayment", Outcome(TRUE, kept < Len(posted), auditFails), t, userRole,
                None, 0)
        /\ UNCHANGED <<requests, disputes, clock>>

\* updateDeductions with its first ledger write or the audit record failing.
UpdateDeductionsPostingFails(t, patch, addedBy, postingFails, auditFails) ==
  /\ t \in TripIds
  /\ trips[t].status # "Completed"
  /\ postingFails \/ auditFails
  /\ LET merged == [trips[t] EXCEPT
                      !.deductions = MergeDeductions(@, patch),
                      !.addedBy = StoredAddedBy(@, addedBy)]
         trip == [merged EXCEPT !.balance = TripBalance(merged)]
         deductionsAddedBy == IF addedBy # None THEN addedBy
                              ELSE IF trip.addedBy # None THEN trip.addedBy
                              ELSE trip.agent
         due == DeductionLedgers(ledger, nextId, t, trip, deductionsAddedBy)
     IN /\ postingFails => due # {[led |-> ledger, nid |-> nextId]}
        /\ \E st \in (IF postingFails THEN {[led |-> ledger, nid |-> nextId]} ELSE due) :
             /\ trips' = [trips EXCEPT ![t] = trip]
             /\ ledger' = st.led
             /\ nextId' = st.nid
        /\ Done("updateDeductions", Outcome(TRUE, postingFails, auditFails), t, None,
                deductionsAddedBy, 0)
        /\ UNCHANGED <<requests, disputes, clock>>

\* closeTrip of a trip that is not bulk with the Ledger.create of the Trip
\* Closed entry, that of the Beta/Batta Credit or the audit record failing.
CloseTripPostingFails(t, forceClose, closedBy, closedByRole, closedFails, betaFails, auditFails) ==
  /\ t \in TripIds
  /\ ~(OpenDispute(t) /\ ~forceClose)
  /\ ~trips[t].isBulk
  /\ ~CloseRejected(closedByRole, FinalBalance(trips[t]), FoldBalance(ledger, closedBy))
  /\ closedFails \/ betaFails \/ auditFails
  /\ betaFails => trips[t].deductions["beta"] > 0
  /\ \E now \in Now :
       LET trip == trips[t]
           finalBalance == FinalBalance(trip)
           closingAgentId == IF closedBy # None THEN closedBy ELSE trip.agent
           led1 == CreatorSettlement(ledger, nextId, t, trip)
           nid1 == nextId + (Len(led1) - Len(ledger))
           led2 == IF closedFails THEN led1
                   ELSE Append(led1, TripClosedEntry(led1, nid1, t, trip, closingAgentId,
                                                     finalBalance))
           led3 == IF trip.deductions["beta"] > 0 /\ ~betaFails
                   THEN Append(led2, BetaCreditEntry(led2, nid1 + (Len(led2) - Len(led1)), t,
                                                     trip))
                   ELSE led2
       IN /\ trips' = [trips EXCEPT ![t] =
                         [trip EXCEPT !.status = "Completed",
                                      !.finalBalance = finalBalance,
                                      !.closedAt = now,
                                      !.closedBy = closingAgentId]]
          /\ ledger' = led3
          /\ nextId' = nextId + (Len(led3) - Len(ledger))
          /\ clock' = now
          /\ Done("closeTrip", Outcome(TRUE, closedFails \/ betaFails, auditFails), t,
                  closedByRole, closedBy, 0)
          /\ UNCHANGED <<requests, disputes>>

TransferToAgentCreditFails(senderAgentId, receiverAgentId, amount) ==
  /\ senderAgentId # None /\ receiverAgentId # None
  /\ senderAgentId # receiverAgentId
  /\ FoldBalance(ledger, senderAgentId) >= amount
  /\ \E now \in Now :
       LET led == Append(ledger, Head(TransferEntries(ledger, nextId, senderAgentId,
                                                     receiverAgentId, amount, now)))
           recentEntries == {i \in 1..Len(led) :
                               led[i].agent \in {senderAgentId, receiverAgentId}}
       IN /\ ledger' = led
          /\ nextId' = nextId + 1
          /\ clock' = now
          /\ Done("transferToAgent", Cardinality(recentEntries) >= 2, 0, None,
                  senderAgentId, amount)
          /\ UNCHANGED <<requests, trips, disputes>>

\* A virtual addTopUp whose second Ledger.create throws: the Credit is stored and
\* the catch, finding an entry of the agent, answers "Top-up added successfully".
AddTopUpDebitFails(amount, agentId) ==
  /\ agentId # None
  /\ ledger' = Append(ledger, Head(TopUpEntries(ledger, nextId, agentId, amount, TRUE,
                                               clock)))
  /\ nextId' = nextId + 1
  /\ Done("addTopUp", TRUE, 0, None, agentId, amount)
  /\ UNCHANGED <<requests, trips, disputes, clock>>


\* createDispute await by await: Trip.findById with the checks on the trip,
\* Dispute.findOne, Dispute.create, trip.save.
CreateDisputeRead(r, t, agentId) ==
  /\ FreeSlot(r)
  /\ t \in TripIds
  /\ IF \/ agentId = None
        \/ trips[t].agent # agentId
        \/ trips[t].status # "Active"
     THEN /\ Done("createDispute", FALSE, t, None, None, 0)
          /\ UNCHANGED <<requests, trips, ledger, disputes, nextId, clock>>
     ELSE /\ requests' = [requests EXCEPT ![r] =
                            [pc |-> "find", op |-> "createDispute", t |-> t,
                             snap |-> trips[t], body |-> [agentId |-> agentId],
                             posted |-> <<>>]]
          /\ UNCHANGED <<trips, ledger, disputes, nextId, clock, last>>

CreateDisputeFind(r) ==
  LET q == requests[r]
  IN /\ q.pc = "find" /\ q.op = "createDispute"
     /\ IF OpenDispute(q.t)
        THEN /\ requests' = [requests EXCEPT ![r] = Idle]
             /\ Done("createDispute", FALSE, q.t, None, None, 0)
        ELSE /\ requests' = [requests EXCEPT ![r].pc = "create"]
             /\ UNCHANGED last
     /\ UNCHANGED <<trips, ledger, disputes, nextId, clock>>

CreateDisputeCreate(r) ==
  LET q == requests[r]
  IN /\ q.pc = "create" /\ q.op = "createDispute"
     /\ Len(disputes) < MaxDisputes
     /\ disputes' = Append(disputes, [tripId |-> q.t, status |-> "Open"])
     /\ requests' = [requests EXCEPT ![r].pc = "save"]
     /\ UNCHANGED <<trips, ledger, nextId, clock, last>>

CreateDisputeSave(r) ==
  LET q == requests[r]
  IN /\ q.pc = "save" /\ q.op = "createDispute"
     /\ trips' = [trips EXCEPT ![q.t].status = "In Dispute"]
     /\ requests' = [requests EXCEPT ![r] = Idle]
     /\ Done("createDispute", TRUE, q.t, None, None, 0)
     /\ UNCHANGED <<ledger, disputes, nextId, clock>>

\* ---------------------------------------------------------------- specifications
Corrections == {[freight |-> 3], [freight |-> 4, advance |-> 1], [cess |-> 1, beta |-> 0],
                [advance |-> 0, beta |-> 1]}

\* A specification explores the ledger up to `cap` entries ever created.
Within(cap) == nextId' <= cap + 1
\* ... and up to `cap` trips.
TripsWithin(cap) == Len(trips') <= cap

\* Trip balance: creation, payments and deduction saves.
NextBalance ==
  \/ \E b \in BOOLEAN, a \in AdvanceVals, ag \in Agents :
       /\ CreateTrip("LR1", None, b, 3, a, ag)
       /\ Within(MaxEntries) /\ TripsWithin(MaxTrips)
  \/ \E t \in TripIds, amt \in PayVals, r \in PayRoles, who \in Agents \cup {None} :
       /\ AddPayment(t, amt, r, IF r = "Finance" THEN who ELSE None,
                     IF r = "Finance" THEN None ELSE who)
       /\ Within(MaxEntries)
  \/ \E t \in TripIds, p \in Patches, by \in Agents \cup {None} :
       UpdateDeductions(t, p, by) /\ Within(MaxEntries)

SpecBalance == Init /\ [][NextBalance]_vars

\* The agents' ledger: top-ups, transfers and their correction.
NextLedger ==
  \/ \E ag \in Agents \cup {None}, v \in BOOLEAN :
       AddTopUp(2, ag, v) /\ Within(MaxLedgerEntries)
  \/ \E a \in Agents \cup {None}, b \in Agents :
       TransferToAgent(a, b, 1) /\ Within(MaxLedgerEntries)
  \/ \E id \in 1..MaxLedgerEntries : UpdateLedgerEntry(id, 2)
  \/ \E id \in 1..MaxLedgerEntries : DeleteLedgerEntry(id)

SpecLedger == Init /\ [][NextLedger]_vars

\* Closing: trips with payments and deductions, disputes that block, and closeTrip
\* under every role.
NextClose ==
  \/ \E b \in BOOLEAN, a \in AdvanceVals :
       /\ CreateTrip("LR1", None, b, 3, a, "a1")
       /\ Within(MaxEntries) /\ TripsWithin(MaxTrips)
  \/ \E t \in TripIds, amt \in PayVals, r \in PayRoles :
       /\ AddPayment(t, amt, r, IF r = "Finance" THEN "a1" ELSE None,
                     IF r = "Finance" THEN None ELSE "a1")
       /\ Within(MaxEntries)
  \/ \E t \in TripIds, p \in {[cess |-> 1], [beta |-> 1]} :
       UpdateDeductions(t, p, None) /\ Within(MaxEntries)
  \/ \E t \in TripIds : CreateDispute(t, "a1")
  \/ AddTopUp(2, "a2", FALSE) /\ Within(MaxEntries)
  \/ \E t \in TripIds, fc \in BOOLEAN, by \in {"a2", None}, r \in CloseRoles :
       CloseTrip(t, fc, by, r) /\ Within(MaxEntries)

SpecClose == Init /\ [][NextClose]_vars

\* The trip's life: disputes and their resolution, closing and updateTrip.
NextLifecycle ==
  \/ \E b \in BOOLEAN :
       CreateTrip("LR1", None, b, 3, 1, "a1") /\ Within(MaxEntries) /\ TripsWithin(MaxTrips)
  \/ \E t \in TripIds :
       AddPayment(t, 2, "Agent", None, "a1") /\ Within(MaxEntries)
  \/ \E t \in TripIds, p \in {[cess |-> 1], [beta |-> 1]} :
       UpdateDeductions(t, p, None) /\ Within(MaxEntries)
  \/ \E t \in TripIds : CreateDispute(t, "a1")
  \/ \E d \in DOMAIN disputes, c \in Corrections :
       ResolveDispute(d, c) /\ Within(MaxEntries)
  \/ \E t \in TripIds, fc \in BOOLEAN, r \in {"Agent", "Finance"} :
       CloseTrip(t, fc, None, r) /\ Within(MaxEntries)
  \/ \E t \in TripIds, st \in {"Active", "In Dispute", "Completed", None} :
       UpdateTrip(t, st)

SpecLifecycle == Init /\ [][NextLifecycle]_vars

\* Balances as folded: payments by another agent, closing, top-ups, transfers and
\* the balance read.
NextFold ==
  \/ \E ag \in Agents :
       /\ CreateTrip("LR1", None, FALSE, 3, 1, ag)
       /\ Within(MaxEntries) /\ TripsWithin(MaxTrips)
  \/ \E t \in TripIds, amt \in PayVals, who \in Agents :
       AddPayment(t, amt, "Agent", None, who) /\ Within(MaxEntries)
  \/ \E t \in TripIds, by \in Agents, r \in {"Agent", "Finance"} :
       CloseTrip(t, FALSE, by, r) /\ Within(MaxEntries)
  \/ \E ag \in Agents : AddTopUp(2, ag, FALSE) /\ Within(MaxEntries)
  \/ \E a \in Agents, b \in Agents : TransferToAgent(a, b, 1) /\ Within(MaxEntries)
  \/ \E a \in Agents : GetAgentBalance(a)

SpecFold == Init /\ [][NextFold]_vars

\* Overlapping requests on one trip: payments and deduction saves await by await.
NextOverlap ==
  \/ /\ CreateTrip("LR1", None, FALSE, 3, 0, "a1")
     /\ Within(MaxEntries) /\ TripsWithin(MaxTrips)
  \/ \E r \in ReqIds, t \in TripIds, role \in PayRoles, who \in Agents :
       AddPaymentRead(r, t, 1, role, who, who)
  \/ \E r \in ReqIds : AddPaymentSave(r)
  \/ \E r \in ReqIds : AddPaymentPost(r) /\ Within(MaxEntries)
  \/ \E r \in ReqIds : AddPaymentLedgerFails(r)
  \/ \E r \in ReqIds : AddPaymentRespond(r)
  \/ \E r \in ReqIds, t \in TripIds : UpdateDeductionsRead(r, t, [cess |-> 1], None)
  \/ \E r \in ReqIds : UpdateDeductionsSave(r)
  \/ \E r \in ReqIds : UpdateDeductionsPost(r) /\ Within(MaxEntries)

SpecOverlap == Init /\ [][NextOverlap]_vars

\* The ledger's paired writes, with a second write that may fail.
NextAtomic ==
  \/ \E ag \in Agents, v \in BOOLEAN : AddTopUp(2, ag, v) /\ Within(MaxLedgerEntries)
  \/ \E ag \in Agents : AddTopUpDebitFails(2, ag) /\ Within(MaxLedgerEntries)
  \/ \E a \in Agents, b \in Agents :
       TransferToAgent(a, b, 1) /\ Within(MaxLedgerEntries)
  \/ \E a \in Agents, b \in Agents :
       TransferToAgentCreditFails(a, b, 1) /\ Within(MaxLedgerEntries)

SpecAtomic == Init /\ [][NextAtomic]_vars

\* Payments under every combination of role, selected agent and user id.
PayerRoles == {"Agent", "Finance", None}

NextPay ==
  \/ \E ag \in Agents :
       /\ CreateTrip("LR1", None, FALSE, 3, 0, ag)
       /\ Within(MaxEntries) /\ TripsWithin(MaxTrips)
  \/ \E t \in TripIds, amt \in PayVals, r \in PayerRoles,
        aid \in Agents \cup {None}, uid \in Agents \cup {None} :
       AddPayment(t, amt, r, aid, uid) /\ Within(MaxEntries)

SpecPay == Init /\ [][NextPay]_vars

\* LR numbers: createTrip requests (whole and await by await, so that two
\* may overlap), and disputes resolved with a replacement lrNumber.
LrNumbers == {"LR1", "lr1", "LR2"}

LrCorrections == {[lrNumber |-> lr] : lr \in LrNumbers} \cup {[freight |-> 4]}

NextLr ==
  \/ \E lr \in LrNumbers, tid \in LrNumbers \cup {None} :
       /\ CreateTrip(lr, tid, FALSE, 3, 0, "a1")
       /\ Within(MaxEntries) /\ TripsWithin(MaxLrTrips)
  \/ \E r \in ReqIds, lr \in LrNumbers :
       CreateTripCheck(r, lr, None, FALSE, 3, 0, "a1")
  \/ \E r \in ReqIds :
       CreateTripCreate(r) /\ Within(MaxEntries) /\ TripsWithin(MaxLrTrips)
  \/ \E t \in TripIds : CreateDispute(t, "a1")
  \/ \E d \in DOMAIN disputes, c \in LrCorrections :
       ResolveDispute(d, c) /\ Within(MaxEntries)

SpecLr == Init /\ [][NextLr]_vars

\* Closing deductions entered by the trip's agent or by another user, and the
\* close that settles them.
SettlePatches == {[cess |-> 1], [beta |-> 1]}

NextSettle ==
  \/ CreateTrip("LR1", None, FALSE, 3, 0, "a1")
       /\ Within(MaxLedgerEntries) /\ TripsWithin(MaxTrips)
  \/ \E t \in TripIds, p \in SettlePatches, by \in Agents \cup {None} :
       UpdateDeductions(t, p, by) /\ Within(MaxLedgerEntries)
  \/ \E t \in TripIds, by \in Agents \cup {None}, r \in {"Agent", "Finance"} :
       CloseTrip(t, FALSE, by, r) /\ Within(MaxLedgerEntries)

SpecSettle == Init /\ [][NextSettle]_vars

\* Disputes: raised whole or await by await (so that two requests may overlap)
\* and resolved.
NextDispute ==
  \/ \E b \in BOOLEAN :
       /\ CreateTrip("LR1", None, b, 3, 1, "a1")
       /\ Within(MaxEntries) /\ TripsWithin(MaxTrips)
  \/ \E t \in TripIds, ag \in Agents \cup {None} : CreateDispute(t, ag)
  \/ \E r \in ReqIds, t \in TripIds, ag \in Agents \cup {None} :
       CreateDisputeRead(r, t, ag)
  \/ \E r \in ReqIds : CreateDisputeFind(r)
  \/ \E r \in ReqIds : CreateDisputeCreate(r)
  \/ \E r \in ReqIds : CreateDisputeSave(r)
  \/ \E d \in DOMAIN disputes, c \in Corrections :
       ResolveDispute(d, c) /\ Within(MaxEntries)

SpecDispute == Init /\ [][NextDispute]_vars

\* Resolutions: a trip with an advance, a payment and closing deductions,
\* disputed and resolved with corrections that raise and lower each kind of
\* field.
DisputeCorrections == Corrections \cup {[freight |-> 2, cess |-> 0]}

NextResolve ==
  \/ \E b \in BOOLEAN :
       /\ CreateTrip("LR1", None, b, 3, 1, "a1")
       /\ Within(MaxLedgerEntries) /\ TripsWithin(MaxTrips)
  \/ \E t \in TripIds :
       AddPayment(t, 1, "Agent", None, "a1") /\ Within(MaxLedgerEntries)
  \/ \E t \in TripIds, p \in {[cess |-> 1], [beta |-> 1]} :
       UpdateDeductions(t, p, None) /\ Within(MaxLedgerEntries)
  \/ \E t \in TripIds : CreateDispute(t, "a1")
  \/ \E d \in DOMAIN disputes, c \in DisputeCorrections :
       ResolveDispute(d, c) /\ Within(MaxLedgerEntries)

SpecResolve == Init /\ [][NextResolve]_vars

\* Trip requests whose postings or audit record fail after the trip is saved.
NextFailures ==
  \/ \E a \in AdvanceVals :
       /\ CreateTrip("LR1", None, FALSE, 3, a, "a1")
       /\ Within(MaxEntries) /\ TripsWithin(MaxTrips)
  \/ \E a \in AdvanceVals, pf \in BOOLEAN, af \in BOOLEAN :
       /\ CreateTripPostingFails("LR1", None, FALSE, 3, a, "a1", pf, af)
       /\ Within(MaxEntries) /\ TripsWithin(MaxTrips)
  \/ \E t \in TripIds, r \in {"Agent", "Finance"}, who \in Agents, kept \in 0..2,
        af \in BOOLEAN :
       /\ AddPaymentPostingFails(t, 1, r, who, who, kept, af)
       /\ Within(MaxEntries)
  \/ \E t \in TripIds, p \in SettlePatches :
       UpdateDeductions(t, p, None) /\ Within(MaxEntries)
  \/ \E t \in TripIds, p \in SettlePatches, pf \in BOOLEAN, af \in BOOLEAN :
       /\ UpdateDeductionsPostingFails(t, p, None, pf, af)
       /\ Within(MaxEntries)
  \/ \E t \in TripIds, r \in {"Agent", "Finance"},
        cf \in BOOLEAN, bf \in BOOLEAN, af \in BOOLEAN :
       /\ CloseTripPostingFails(t, FALSE, None, r, cf, bf, af)
       /\ Within(MaxEntries)

SpecFailures == Init /\ [][NextFailures]_vars

\* A close while addPayment and updateDeductions requests are in flight.
NextCloseRace ==
  \/ /\ CreateTrip("LR1", None, FALSE, 3, 0, "a1")
     /\ Within(MaxEntries) /\ TripsWithin(MaxTrips)
  \/ \E r \in ReqIds, t \in TripIds : AddPaymentRead(r, t, 1, "Agent", None, "a1")
  \/ \E r \in ReqIds : AddPaymentSave(r)
  \/ \E r \in ReqIds : AddPaymentPost(r) /\ Within(MaxEntries)
  \/ \E r \in ReqIds : AddPaymentRespond(r)
  \/ \E r \in ReqIds, t \in TripIds : UpdateDeductionsRead(r, t, [cess |-> 1], None)
  \/ \E r \in ReqIds : UpdateDeductionsSave(r)
  \/ \E r \in ReqIds : UpdateDeductionsPost(r) /\ Within(MaxEntries)
  \/ \E t \in TripIds : CloseTrip(t, FALSE, None, "Finance") /\ Within(MaxEntries)

SpecCloseRace == Init /\ [][NextCloseRace]_vars

\* transferToAgent await by await: the balance read and its check, the sender's
\* Debit, the receiver's balance read and the receiver's Credit are separate steps.
TransferToAgentRead(r, senderAgentId, receiverAgentId, amount) ==
  /\ FreeSlot(r)
  /\ IF \/ senderAgentId = None \/ receiverAgentId = None
        \/ senderAgentId = receiverAgentId
        \/ FoldBalance(ledger, senderAgentId) < amount
     THEN /\ Done("transferToAgent", FALSE, 0, None, senderAgentId, amount)
          /\ UNCHANGED <<requests, trips, ledger, disputes, nextId, clock>>
     ELSE \E now \in Now :
            /\ requests' = [requests EXCEPT ![r] =
                              [pc |-> "debit", op |-> "transferToAgent", t |-> 0,
                               snap |-> [senderBalance |-> FoldBalance(ledger, senderAgentId),
                                         receiverBalance |-> 0,
                                         sharedTimestamp |-> now],
                               body |-> [senderAgentId |-> senderAgentId,
                                         receiverAgentId |-> receiverAgentId,
                                         transferAmount |-> amount],
                               posted |-> <<>>]]
            /\ clock' = now
            /\ UNCHANGED <<trips, ledger, disputes, nextId, last>>

TransferToAgentDebit(r) ==
  LET q == requests[r]
  IN /\ q.pc = "debit" /\ q.op = "transferToAgent"
     /\ ledger' = Append(ledger,
                         Entry(nextId, 0, "TRANSFER", q.snap.sharedTimestamp,
                               "Agent Transfer", q.body.transferAmount,
                               q.snap.senderBalance - q.body.transferAmount,
                               q.body.senderAgentId, "Debit", FALSE, NoDesc))
     /\ nextId' = nextId + 1
     /\ requests' = [requests EXCEPT ![r].pc = "find", ![r].posted = Append(@, nextId)]
     /\ UNCHANGED <<trips, disputes, clock, last>>

TransferToAgentFind(r) ==
  LET q == requests[r]
  IN /\ q.pc = "find" /\ q.op = "transferToAgent"
     /\ requests' = [requests EXCEPT
                       ![r].pc = "credit",
                       ![r].snap.receiverBalance = FoldBalance(ledger, q.body.receiverAgentId)]
     /\ UNCHANGED <<trips, ledger, disputes, nextId, clock, last>>

TransferToAgentCredit(r) ==
  LET q == requests[r]
  IN /\ q.pc = "credit" /\ q.op = "transferToAgent"
     /\ ledger' = Append(ledger,
                         Entry(nextId, 0, "TRANSFER", q.snap.sharedTimestamp,
                               "Agent Transfer", q.body.transferAmount,
                               q.snap.receiverBalance + q.body.transferAmount,
                               q.body.receiverAgentId, "Credit", FALSE, NoDesc))
     /\ nextId' = nextId + 1
     /\ requests' = [requests EXCEPT ![r] = Idle]
     /\ Done("transferToAgent", TRUE, 0, None, q.body.senderAgentId,
             q.body.transferAmount)
     /\ UNCHANGED <<trips, disputes, clock>>

\* Top-ups and transfers that overlap.
NextTransfer ==
  \/ \E ag \in Agents : AddTopUp(1, ag, FALSE) /\ Within(MaxLedgerEntries)
  \/ \E r \in ReqIds, a \in Agents \cup {None}, b \in Agents :
       TransferToAgentRead(r, a, b, 1)
  \/ \E r \in ReqIds : TransferToAgentDebit(r) /\ Within(MaxLedgerEntries)
  \/ \E r \in ReqIds : TransferToAgentFind(r)
  \/ \E r \in ReqIds : TransferToAgentCredit(r) /\ Within(MaxLedgerEntries)

SpecTransfer == Init /\ [][NextTransfer]_vars

\* Transfers and the amending of their entries, with nothing deleted.
NextAmend ==
  \/ \E ag \in Agents : AddTopUp(2, ag, FALSE) /\ Within(MaxLedgerEntries)
  \/ \E a \in Agents, b \in Agents :
       TransferToAgent(a, b, 1) /\ Within(MaxLedgerEntries)
  \/ \E id \in 1..MaxLedgerEntries : UpdateLedgerEntry(id, 2)

SpecAmend == Init /\ [][NextAmend]_vars

\* ---------------------------------------------------------------- claims
\* No request is in flight.
Quiescent == \A r \in ReqIds : requests[r].pc = "idle"

\* Payments counted as closeTrip counts them: Finance payments added, the others
\* subtracted.
RECURSIVE SignedPayments(_)
SignedPayments(ps) ==
  IF ps = <<>> THEN 0
  ELSE (IF Head(ps).addedByRole = "Finance" THEN Head(ps).amount ELSE -Head(ps).amount)
       + SignedPayments(Tail(ps))

RECURSIVE PaidTotal(_)
PaidTotal(ps) == IF ps = <<>> THEN 0 ELSE Head(ps).amount + PaidTotal(Tail(ps))

AdditiveTotal(d) ==
  d["cess"] + d["kata"] + d["excessTonnage"] + d["halting"] + d["expenses"] + d["others"]

\* The close-time final balance of a trip's stored fields.
CloseFormula(t) ==
  (t.freight - t.advance) + AdditiveTotal(t.deductions) - t.deductions["beta"]
    + SignedPayments(t.onTripPayments)

\* C1: on a non-bulk trip, after any sequence of successful addPayment and
\* updateDeductions calls, the stored balance equals (freight - advance) + (cess +
\* kata + excessTonnage + halting + expenses + others) - beta - (sum of the payment
\* amounts) of the trip's stored fields.
C1_BalanceFormula ==
  \A t \in TripIds :
    ~trips[t].isBulk =>
      trips[t].balance = (trips[t].freight - trips[t].advance)
                           + AdditiveTotal(trips[t].deductions)
                           - trips[t].deductions["beta"]
                           - PaidTotal(trips[t].onTripPayments)

C1_Witness ==
  \E t \in TripIds :
    /\ ~trips[t].isBulk
    /\ Len(trips[t].onTripPayments) >= 1
    /\ trips[t].deductions["cess"] > 0
    /\ trips[t].deductions["beta"] > 0
    /\ last.op \in {"addPayment", "updateDeductions"} /\ last.ok /\ last.trip = t

\* An agent's balance over the entries that are not informational.
RECURSIVE NonInformationalBalance(_, _)
NonInformationalBalance(led, a) ==
  IF led = <<>> THEN 0
  ELSE (IF Head(led).agent = a /\ ~Head(led).isInformational
        THEN (IF Head(led).direction = "Credit" THEN Head(led).amount ELSE -Head(led).amount)
        ELSE 0)
       + NonInformationalBalance(Tail(led), a)

\* C2: the balance getAgentBalance returns for an agent equals the Credits minus the
\* Debits of that agent's entries whose isInformational flag is false, so an
\* informational entry leaves the balance unchanged.
C2_BalanceSkipsInformational ==
  last.op = "getAgentBalance" => last.n = NonInformationalBalance(ledger, last.agent)

\* C3: Completed is terminal: once a trip's status is Completed no later operation
\* changes it to anything else.
C3_CompletedIsTerminal ==
  [][\A t \in TripIds :
       trips[t].status = "Completed" => trips'[t].status = "Completed"]_vars

\* C4: closeTrip on a non-bulk trip with closedByRole = Agent fails whenever
\* |final| > 0.01, whatever the closing agent's ledger balance, and leaves the trip's
\* status and finalBalance and the ledger unchanged; with |final| <= 0.01 and no open
\* dispute it succeeds and the trip is Completed.
C4_AgentCloseRule ==
  [][\A t \in TripIds :
       (last'.op = "closeTrip" /\ last'.trip = t /\ last'.role = "Agent"
          /\ ~trips[t].isBulk)
       => IF Abs(CloseFormula(trips[t])) > Tol
          THEN /\ ~last'.ok
               /\ trips'[t].status = trips[t].status
               /\ trips'[t].finalBalance = trips[t].finalBalance
               /\ ledger' = ledger
          ELSE OpenDispute(t) \/ (last'.ok /\ trips'[t].status = "Completed")]_vars

\* An agent whose balance covers the final amount was refused.
C4_Witness ==
  /\ last.op = "closeTrip" /\ ~last.ok /\ last.role = "Agent"
  /\ last.trip \in TripIds
  /\ ~trips[last.trip].isBulk
  /\ ~OpenDispute(last.trip)
  /\ CloseFormula(trips[last.trip]) > Tol
  /\ FoldBalance(ledger, last.agent) >= CloseFormula(trips[last.trip])
  /\ trips[last.trip].status = "Active"

\* C5: a non-bulk trip whose final balance has |final| > 0.01 is completed by
\* closeTrip only when the role of the request is Finance or Admin.
C5_OnlyFinanceOrAdminForceClose ==
  (/\ last.op = "closeTrip" /\ last.ok
   /\ last.trip \in TripIds
   /\ ~trips[last.trip].isBulk
   /\ Abs(CloseFormula(trips[last.trip])) > Tol)
  => last.role \in {"Finance", "Admin"}

\* C6 as stated: closing a bulk trip changes only its status (to Completed) and
\* closedAt; every other field of the trip is unchanged and no ledger entry is posted.
C6_OnlyStatusAndClosedAt ==
  [][\A t \in TripIds :
       (last'.op = "closeTrip" /\ last'.ok /\ last'.trip = t /\ trips[t].isBulk)
       => /\ \A f \in DOMAIN trips[t] \ {"status", "closedAt"} :
               trips'[t][f] = trips[t][f]
          /\ ledger' = ledger]_vars

\* C6: closing a bulk trip sets status to Completed, closedAt to the time of the
\* close and closedBy to the trip's agent, and changes nothing else: balance,
\* finalBalance, freight, advance, deductions and payments are unchanged and no
\* ledger entry is posted.
C6_BulkCloseFrame ==
  [][\A t \in TripIds :
       (last'.op = "closeTrip" /\ last'.ok /\ last'.trip = t /\ trips[t].isBulk)
       => /\ trips'[t].status = "Completed"
          /\ trips'[t].closedAt = clock'
          /\ trips'[t].closedBy = trips[t].agent
          /\ \A f \in DOMAIN trips[t] \ {"status", "closedAt", "closedBy"} :
               trips'[t][f] = trips[t][f]
          /\ trips'[t].balance = trips[t].balance
          /\ trips'[t].finalBalance = trips[t].finalBalance
          /\ trips'[t].onTripPayments = trips[t].onTripPayments
          /\ ledger' = ledger]_vars

\* A bulk trip with a payment on it and a balance that is not 0 was closed.
C6_Witness ==
  /\ last.op = "closeTrip" /\ last.ok
  /\ last.trip \in TripIds
  /\ trips[last.trip].isBulk
  /\ trips[last.trip].status = "Completed"
  /\ trips[last.trip].closedAt > 0
  /\ trips[last.trip].closedBy = trips[last.trip].agent
  /\ trips[last.trip].onTripPayments # <<>>
  /\ trips[last.trip].balance # 0

\* C7: resolveDispute with corrections equal to the trip's current value for every
\* supplied field posts zero ledger entries and leaves trip.balance unchanged.
C7_EqualCorrectionsNoOp ==
  [][\A t \in TripIds :
       (/\ last'.op = "resolveDispute" /\ last'.ok /\ last'.trip = t
        /\ trips'[t].freight = trips[t].freight
        /\ trips'[t].advance = trips[t].advance
        /\ trips'[t].deductions = trips[t].deductions)
       => ledger' = ledger /\ trips'[t].balance = trips[t].balance]_vars

C7_Witness ==
  /\ last.op = "resolveDispute" /\ last.ok /\ last.n = 0
  /\ last.trip \in TripIds
  /\ trips[last.trip].deductions["cess"] > 0
  /\ trips[last.trip].onTripPayments # <<>>

\* The sum of all agents' balances.
RECURSIVE TotalOfBalances(_, _)
TotalOfBalances(led, as) ==
  IF as = {} THEN 0
  ELSE LET a == CHOOSE x \in as : TRUE
       IN FoldBalance(led, a) + TotalOfBalances(led, as \ {a})

TwinId(e) == IF e.direction = "Debit" THEN e.id + 1 ELSE e.id - 1

\* C9: deleting either entry of an Agent Transfer pair removes both entries of that
\* pair and no entry of another transfer: the ledger never holds one twin without
\* the other.
C9_TwinsTogether ==
  \A i \in 1..Len(ledger) :
    ledger[i].type = "Agent Transfer"
      => \E j \in 1..Len(ledger) :
           ledger[j].id = TwinId(ledger[i]) /\ ledger[j].type = "Agent Transfer"

\* The Settlement Debit entries of one bucket that an agent holds for a trip.
SettlementCount(led, t, agent, kind) ==
  Cardinality({i \in 1..Len(led) :
                 /\ led[i].tripId = t /\ led[i].agent = agent
                 /\ led[i].type = "Settlement" /\ led[i].direction = "Debit"
                 /\ led[i].description.kind = kind})

\* C10: submitting the same deduction set again for an Active trip by the same
\* contributing agent leaves exactly one additions Settlement Debit entry and exactly
\* one beta Settlement Debit entry for that trip and agent.
C10_IdempotentUpsert ==
  [][\A t \in TripIds :
       (/\ last.op = "updateDeductions" /\ last.ok /\ last.trip = t
        /\ last'.op = "updateDeductions" /\ last'.ok /\ last'.trip = t
        /\ last'.agent = last.agent
        /\ trips[t].status = "Active"
        /\ trips'[t].deductions = trips[t].deductions
        /\ AdditiveTotal(trips[t].deductions) > 0
        /\ trips[t].deductions["beta"] > 0)
       => /\ SettlementCount(ledger', t, last'.agent, "additions") = 1
          /\ SettlementCount(ledger', t, last'.agent, "beta") = 1]_vars

\* C11: when addPayment and updateDeductions requests on one trip overlap, after all
\* of them have finished the stored balance equals (freight - advance) + additions
\* - beta - (sum of the stored payments): no update is lost.
C11_NoLostUpdate ==
  Quiescent =>
    \A t \in TripIds :
      trips[t].balance = (trips[t].freight - trips[t].advance)
                           + AdditiveTotal(trips[t].deductions)
                           - trips[t].deductions["beta"]
                           - PaidTotal(trips[t].onTripPayments)

\* The entry with the next id is there and has the type and direction given.
Followed(e, type, direction) ==
  \E j \in 1..Len(ledger) :
    /\ ledger[j].id = e.id + 1
    /\ ledger[j].type = type /\ ledger[j].direction = direction
    /\ ledger[j].amount = e.amount

\* C12: the paired entries of one event are created as a unit: the ledger never
\* holds a transfer's sender Debit without the receiver's Credit, a virtual top-up
\* Credit without its expense Debit, or a Finance payment's Top-up Credit without
\* its On-Trip Payment Debit, even when the second write fails.
C12_PairsAreAtomic ==
  \A i \in 1..Len(ledger) :
    LET e == ledger[i]
    IN /\ (e.type = "Agent Transfer" /\ e.direction = "Debit")
            => Followed(e, "Agent Transfer", "Credit")
       /\ e.type = "Virtual Top-up" => Followed(e, "Virtual Expense", "Debit")
       /\ (e.type = "Top-up" /\ e.tripId # 0) => Followed(e, "On-Trip Payment", "Debit")

\* The ledger entry with the id given.
EntryOf(led, id) == led[CHOOSE i \in 1..Len(led) : led[i].id = id]

\* The entries a Finance payment in flight has created so far: first the Top-up
\* Credit, then the On-Trip Payment Debit, both for the selected agent and the
\* amount of the payment.
FinancePairInOrder(q, led) ==
  /\ Len(q.posted) <= 2
  /\ \A k \in 1..Len(q.posted) : \E i \in 1..Len(led) : led[i].id = q.posted[k]
  /\ Len(q.posted) >= 1 =>
       LET c == EntryOf(led, q.posted[1])
       IN /\ c.type = "Top-up" /\ c.direction = "Credit"
          /\ c.agent = q.body.target /\ c.amount = q.body.amount
  /\ Len(q.posted) = 2 =>
       LET d == EntryOf(led, q.posted[2])
       IN /\ d.type = "On-Trip Payment" /\ d.direction = "Debit"
          /\ d.agent = q.body.target /\ d.amount = q.body.amount
          /\ q.posted[1] < q.posted[2]

\* C13: a Finance payment creates the Top-up Credit before the On-Trip Payment
\* Debit, both for the selected agent and the same amount, so that in every
\* intermediate and final state the entries of the payment never lower the agent's
\* folded balance below what it was before the payment.
C13_CreditBeforeDebit ==
  \A r \in ReqIds :
    (requests[r].op = "addPayment" /\ requests[r].body.userRole = "Finance")
    => /\ FinancePairInOrder(requests[r], ledger)
       /\ LET own == SelectSeq(ledger,
                       LAMBDA e : \E k \in 1..Len(requests[r].posted) :
                                    e.id = requests[r].posted[k])
          IN FoldBalance(own, requests[r].body.target) >= 0

\* The Credit of a Finance payment is stored and its Debit is not yet, while
\* another request is in flight.
C13_Witness ==
  \E r \in ReqIds :
    /\ requests[r].op = "addPayment" /\ requests[r].body.userRole = "Finance"
    /\ Len(requests[r].posted) = 1
    /\ \E r2 \in ReqIds \ {r} : requests[r2].pc # "idle"

\* C14: whenever addPayment debits an agent other than the trip's creating agent,
\* under the Agent role or the Finance role, it also posts to the creator's ledger a
\* Debit with isInformational = true, whose recorded balance is the creator's
\* balance unaffected by the payment.
C14_CreatorInformed ==
  [][\A t \in TripIds :
       (last'.op = "addPayment" /\ last'.ok /\ last'.trip = t)
       => \A i \in (Len(ledger) + 1)..Len(ledger') :
            (/\ ledger'[i].direction = "Debit"
             /\ ~ledger'[i].isInformational
             /\ ledger'[i].agent # trips[t].agent)
            => \E j \in (Len(ledger) + 1)..Len(ledger') :
                 /\ ledger'[j].isInformational
                 /\ ledger'[j].direction = "Debit"
                 /\ ledger'[j].agent = trips[t].agent
                 /\ ledger'[j].amount = ledger'[i].amount
                 /\ ledger'[j].balance = FoldBalance(ledger, trips[t].agent)]_vars

C16_OnlyActiveTripsTakePayments ==
  [][\A t \in TripIds :
       (last'.op = "addPayment" /\ last'.trip = t /\ trips[t].status # "Active")
       => /\ ~last'.ok
          /\ trips'[t].onTripPayments = trips[t].onTripPayments
          /\ trips'[t].balance = trips[t].balance
          /\ ledger' = ledger]_vars

\* A payment on a trip In Dispute was refused.
C16_Witness ==
  /\ last.op = "addPayment" /\ ~last.ok
  /\ last.trip \in TripIds
  /\ trips[last.trip].status = "In Dispute"
  /\ \E d \in DOMAIN disputes : disputes[d].tripId = last.trip /\ disputes[d].status = "Open"

\* C17: createTrip stores balance = freight - advance and posts exactly one Debit of
\* amount = advance to the trip's agent when the trip is not bulk and advance > 0,
\* and no ledger entry otherwise; the freight never produces a ledger entry.
C17_CreateTripLedger ==
  [][\A b \in BOOLEAN, a \in AdvanceVals, ag \in Agents :
       (CreateTrip("LR1", None, b, 3, a, ag) /\ last'.ok)
       => LET trip == trips'[Len(trips')]
          IN /\ Len(trips') = Len(trips) + 1
             /\ trip.balance = trip.freight - trip.advance
             /\ trip.balance = (IF b THEN 0 ELSE 3 - a)
             /\ trip.agent = ag
             /\ IF ~b /\ a > 0
                THEN /\ Len(ledger') = Len(ledger) + 1
                     /\ SubSeq(ledger', 1, Len(ledger)) = ledger
                     /\ ledger'[Len(ledger')].direction = "Debit"
                     /\ ledger'[Len(ledger')].amount = a
                     /\ ledger'[Len(ledger')].agent = ag
                     /\ ledger'[Len(ledger')].tripId = Len(trips')
                ELSE ledger' = ledger]_vars

\* A trip with freight 3 and advance 1 was created and the ledger holds the Debit
\* of 1 alone.
C17_Witness ==
  /\ last.op = "createTrip" /\ last.ok
  /\ last.trip \in TripIds
  /\ ~trips[last.trip].isBulk
  /\ trips[last.trip].freight = 3 /\ trips[last.trip].advance = 1
  /\ trips[last.trip].balance = 2
  /\ Len(ledger) = 1 /\ ledger[1].amount = 1 /\ ledger[1].type = "Trip Created"
\* C18: in every reachable state no two stored trips have LR numbers that are
\* equal ignoring case, and no trip's LR number equals another trip's tripId
\* ignoring case.
C18_LrNumbersUnique ==
  \A i \in TripIds, j \in TripIds :
    i # j => /\ Lower(trips[i].lrNumber) # Lower(trips[j].lrNumber)
             /\ Lower(trips[i].lrNumber) # Lower(trips[j].tripId)

\* C19: a closeTrip request for a trip that has an Open dispute, sent without
\* forceClose, fails and leaves the trip (status, finalBalance, closedAt,
\* closedBy) and the ledger as they were.
C19_OpenDisputeBlocksClose ==
  [][\A t \in TripIds, by \in Agents \cup {None}, r \in CloseRoles :
       ( /\ \E d \in DOMAIN disputes :
               disputes[d].tripId = t /\ disputes[d].status = "Open"
         /\ CloseTrip(t, FALSE, by, r) )
       => /\ ~last'.ok
          /\ trips' = trips
          /\ ledger' = ledger]_vars

C19_Witness ==
  /\ last.op = "closeTrip" /\ ~last.ok /\ last.role = "Finance"
  /\ last.trip \in TripIds
  /\ \E d \in DOMAIN disputes :
       disputes[d].tripId = last.trip /\ disputes[d].status = "Open"
  /\ trips[last.trip].status = "In Dispute"
  /\ trips[last.trip].closedAt = 0 /\ trips[last.trip].closedBy = None

\* C20: a closeTrip request that succeeds on a trip that is not bulk sets the
\* status to Completed and finalBalance to (freight - advance) + additions
\* - beta - (payments not by Finance) + (payments by Finance), all taken from
\* the stored trip.
C20_FinalBalanceFormula ==
  [][\A t \in TripIds, fc \in BOOLEAN, by \in Agents \cup {None}, r \in CloseRoles :
       (CloseTrip(t, fc, by, r) /\ last'.ok /\ ~trips[t].isBulk)
       => /\ trips'[t].status = "Completed"
          /\ trips'[t].finalBalance = CloseFormula(trips[t])]_vars

C20_Witness ==
  /\ last.op = "closeTrip" /\ last.ok
  /\ last.trip \in TripIds
  /\ ~trips[last.trip].isBulk
  /\ trips[last.trip].status = "Completed"
  /\ \E k \in DOMAIN trips[last.trip].onTripPayments :
       trips[last.trip].onTripPayments[k].addedByRole = "Finance"
  /\ trips[last.trip].finalBalance = CloseFormula(trips[last.trip])
  /\ trips[last.trip].finalBalance # trips[last.trip].balance

\* C21: right after a closeTrip request has completed a trip that is not bulk,
\* the trip's finalBalance equals its stored balance.
C21_CloseFreezesBalance ==
  (/\ last.op = "closeTrip" /\ last.ok
   /\ last.trip \in TripIds
   /\ ~trips[last.trip].isBulk)
  => trips[last.trip].finalBalance = trips[last.trip].balance

RECURSIVE BetaTotal(_, _, _, _)
\* The beta debited to (direction Debit) or credited back to (Credit) agent a
\* for trip t.
BetaTotal(led, t, a, direction) ==
  IF led = <<>> THEN 0
  ELSE (IF /\ Head(led).tripId = t /\ Head(led).agent = a
           /\ Head(led).direction = direction
           /\ IF direction = "Debit"
              THEN Head(led).type = "Settlement" /\ Head(led).description.kind = "beta"
              ELSE Head(led).type = "Beta/Batta Credit"
        THEN Head(led).amount ELSE 0)
       + BetaTotal(Tail(led), t, a, direction)

\* C23: once a trip with beta > 0 is closed, every agent debited beta for it has
\* been credited the same amount for it.
C23_BetaRefunded ==
  \A t \in TripIds :
    (/\ trips[t].status = "Completed" /\ ~trips[t].isBulk
     /\ trips[t].deductions["beta"] > 0)
    => \A a \in Agents :
         BetaTotal(ledger, t, a, "Debit") = BetaTotal(ledger, t, a, "Credit")

\* C24: a trip never has more than one Open dispute, whatever the order in
\* which createDispute requests (which require an Active trip and set it In
\* Dispute) run and overlap.
C24_OneOpenDispute ==
  \A t \in TripIds :
    Cardinality({d \in DOMAIN disputes :
                   disputes[d].tripId = t /\ disputes[d].status = "Open"}) <= 1

\* C25: resolveDispute on a dispute that is already Resolved fails and leaves the
\* disputes, the trips and the ledger as they were.
C25_ResolvedOnce ==
  [][\A d \in DOMAIN disputes, c \in DisputeCorrections :
       (disputes[d].status = "Resolved" /\ ResolveDispute(d, c))
       => /\ ~last'.ok
          /\ disputes' = disputes
          /\ trips' = trips
          /\ ledger' = ledger]_vars

C25_Witness ==
  /\ last.op = "resolveDispute" /\ ~last.ok
  /\ last.trip \in TripIds
  /\ \E d \in DOMAIN disputes :
       disputes[d].tripId = last.trip /\ disputes[d].status = "Resolved"
  /\ \E i \in DOMAIN ledger : ledger[i].type = "Dispute - Freight Correction"

\* The fields resolveDispute corrects, the stored value of each, and the ledger
\* type and the direction of an increase that the specification gives each.
CorrectedFields == DedFields \cup {"freight", "advance"}

StoredValue(trip, f) ==
  IF f = "freight" THEN trip.freight
  ELSE IF f = "advance" THEN trip.advance
  ELSE trip.deductions[f]

CorrectionType(f) ==
  CASE f = "freight" -> "Dispute - Freight Correction"
    [] f = "advance" -> "Dispute - Advance Correction"
    [] f = "cess" -> "Dispute - Cess Correction"
    [] f = "kata" -> "Dispute - Kata Correction"
    [] f = "excessTonnage" -> "Dispute - ExcessTonnage Correction"
    [] f = "halting" -> "Dispute - Halting Correction"
    [] f = "expenses" -> "Dispute - Expenses Correction"
    [] f = "others" -> "Dispute - Others Correction"
    [] f = "beta" -> "Dispute - Beta Correction"

CorrectionDirection(f, delta) ==
  IF f = "freight"
  THEN (IF delta > 0 THEN "Credit" ELSE "Debit")
  ELSE (IF delta > 0 THEN "Debit" ELSE "Credit")

\* C26: a successful resolveDispute appends, for every corrected field whose
\* delta (new value - stored value) is not zero, exactly one entry of the
\* field's correction type, of amount |delta|, on the trip's agent, Credit for a
\* freight increase and Debit for a decrease, Debit for an increase and Credit
\* for a decrease of advance and of every deduction (beta included); and no
\* other entry.
C26_OneEntryPerDelta ==
  [][\A d \in DOMAIN disputes, c \in DisputeCorrections :
       (ResolveDispute(d, c) /\ last'.ok)
       => LET old == trips[disputes[d].tripId]
              n == Len(ledger)
              new == SubSeq(ledger', n + 1, Len(ledger'))
              Delta(f) == IF f \in DOMAIN c THEN c[f] - StoredValue(old, f) ELSE 0
              changed == {f \in CorrectedFields : Delta(f) # 0}
          IN /\ SubSeq(ledger', 1, n) = ledger
             /\ Len(new) = Cardinality(changed)
             /\ \A f \in changed :
                  Cardinality({i \in DOMAIN new :
                                 /\ new[i].type = CorrectionType(f)
                                 /\ new[i].amount = Abs(Delta(f))
                                 /\ new[i].agent = old.agent
                                 /\ new[i].direction = CorrectionDirection(f, Delta(f))})
                    = 1]_vars

C26_Witness ==
  /\ last.op = "resolveDispute" /\ last.ok /\ last.n = 2
  /\ \E i \in DOMAIN ledger :
       /\ ledger[i].type = "Dispute - Freight Correction"
       /\ ledger[i].direction = "Debit" /\ ledger[i].amount = 1
  /\ \E i \in DOMAIN ledger :
       /\ ledger[i].type = "Dispute - Cess Correction"
       /\ ledger[i].direction = "Credit" /\ ledger[i].amount = 1

\* C27: after a successful resolveDispute the dispute is Resolved, the trip is
\* Active, its payments are as before, and its balance is the balance formula
\* over the corrected freight, advance and deductions and those payments.
C27_ResolvedTripBalance ==
  [][\A d \in DOMAIN disputes, c \in DisputeCorrections :
       (ResolveDispute(d, c) /\ last'.ok)
       => LET t == disputes[d].tripId
              old == trips[t]
              Corrected(f) == IF f \in DOMAIN c THEN c[f] ELSE StoredValue(old, f)
          IN /\ disputes'[d].status = "Resolved"
             /\ trips'[t].status = "Active"
             /\ trips'[t].onTripPayments = old.onTripPayments
             /\ \A f \in CorrectedFields : StoredValue(trips'[t], f) = Corrected(f)
             /\ trips'[t].balance =
                  (Corrected("freight") - Corrected("advance"))
                    + (Corrected("cess") + Corrected("kata") + Corrected("excessTonnage")
                       + Corrected("halting") + Corrected("expenses")
                       + Corrected("others"))
                    - Corrected("beta") - PaidTotal(old.onTripPayments)]_vars

C27_Witness ==
  /\ last.op = "resolveDispute" /\ last.ok /\ last.n > 0
  /\ last.trip \in TripIds
  /\ trips[last.trip].status = "Active"
  /\ trips[last.trip].onTripPayments # <<>>
  /\ trips[last.trip].freight = 4 /\ trips[last.trip].advance = 1
  /\ trips[last.trip].deductions["cess"] = 1
  /\ trips[last.trip].balance = 3

\* C28: an updateLedgerEntry or deleteLedgerEntry request for an entry whose
\* type is not Top-up, Virtual Top-up or Agent Transfer fails and leaves the
\* ledger as it was, and no such request removes or changes an entry of another
\* type.
C28_OnlyAllowedTypesEdited ==
  [][\A id \in 1..MaxLedgerEntries :
       (UpdateLedgerEntry(id, 2) \/ DeleteLedgerEntry(id))
       => /\ \A i \in DOMAIN ledger :
               (/\ ledger[i].id = id
                /\ ledger[i].type \notin {"Top-up", "Virtual Top-up", "Agent Transfer"})
               => ~last'.ok /\ ledger' = ledger
          /\ \A i \in DOMAIN ledger :
               ledger[i].type \notin {"Top-up", "Virtual Top-up", "Agent Transfer"}
               => \E j \in DOMAIN ledger' : ledger'[j] = ledger[i]]_vars

C28_Witness ==
  /\ last.op \in {"updateLedgerEntry", "deleteLedgerEntry"} /\ ~last.ok
  /\ \E i \in DOMAIN ledger :
       ledger[i].id = last.n /\ ledger[i].type = "Virtual Expense"

\* C29: when a ledger posting or the audit record fails after the trip has been
\* saved in createTrip, addPayment, updateDeductions or closeTrip, the request
\* still succeeds and the trip keeps what was saved (the new trip, the new
\* payment, the new deductions, the Completed status and final balance).
C29_FailuresAfterSaveSwallowed ==
  [][/\ \A a \in AdvanceVals, pf \in BOOLEAN, af \in BOOLEAN :
          CreateTripPostingFails("LR1", None, FALSE, 3, a, "a1", pf, af)
          => /\ last'.ok
             /\ Len(trips') = Len(trips) + 1
             /\ trips'[Len(trips')].lrNumber = "LR1"
             /\ SubSeq(trips', 1, Len(trips)) = trips
     /\ \A t \in TripIds, r \in {"Agent", "Finance"}, who \in Agents, kept \in 0..2,
           af \in BOOLEAN :
          AddPaymentPostingFails(t, 1, r, who, who, kept, af)
          => /\ last'.ok
             /\ Len(trips'[t].onTripPayments) = Len(trips[t].onTripPayments) + 1
             /\ trips'[t].balance = trips[t].balance - 1
     /\ \A t \in TripIds, p \in SettlePatches, pf \in BOOLEAN, af \in BOOLEAN :
          UpdateDeductionsPostingFails(t, p, None, pf, af)
          => /\ last'.ok
             /\ \A f \in DOMAIN p : trips'[t].deductions[f] = p[f]
     /\ \A t \in TripIds, r \in {"Agent", "Finance"},
           cf \in BOOLEAN, bf \in BOOLEAN, af \in BOOLEAN :
          CloseTripPostingFails(t, FALSE, None, r, cf, bf, af)
          => /\ last'.ok
             /\ trips'[t].status = "Completed"
             /\ trips'[t].finalBalance = CloseFormula(trips[t])]_vars

C29_Witness ==
  /\ last.op = "closeTrip" /\ last.ok
  /\ last.trip \in TripIds
  /\ trips[last.trip].status = "Completed"
  /\ trips[last.trip].deductions["beta"] > 0
  /\ trips[last.trip].onTripPayments # <<>>
  /\ \A i \in DOMAIN ledger :
       ledger[i].type \notin {"Trip Closed", "Beta/Batta Credit", "On-Trip Payment"}

\* C30: in every reachable state a bulk trip has freight 0, advance 0 and
\* balance 0.
C30_BulkStaysZero ==
  \A t \in TripIds :
    trips[t].isBulk =>
      trips[t].freight = 0 /\ trips[t].advance = 0 /\ trips[t].balance = 0

\* C31: an updateDeductions request on a trip that is In Dispute or Completed
\* changes neither the trip nor the ledger.
C31_DeductionsOnlyWhileActive ==
  [][\A t \in TripIds, p \in {[cess |-> 1], [beta |-> 1]} :
       (/\ trips[t].status \in {"In Dispute", "Completed"}
        /\ UpdateDeductions(t, p, None))
       => trips' = trips /\ ledger' = ledger]_vars

\* C32: in every reachable state, a trip that is not bulk and was completed by
\* closeTrip has a finalBalance equal to the close formula over the payments
\* and deductions stored on it, whatever addPayment and updateDeductions
\* requests were in flight around the close.
C32_FinalBalanceConsistent ==
  \A t \in TripIds :
    (/\ ~trips[t].isBulk
     /\ trips[t].status = "Completed"
     /\ trips[t].closedAt # 0)
    => trips[t].finalBalance = CloseFormula(trips[t])

\* C33: every entry of the ledger has an amount that is not negative.
C33_AmountsNonNegative ==
  \A i \in DOMAIN ledger : ledger[i].amount >= 0

\* The entries of a virtual top-up alone: the Virtual Top-up Credit and the Virtual
\* Expense Debit.
VirtualEntries(led) ==
  SelectSeq(led, LAMBDA e : e.type \in {"Virtual Top-up", "Virtual Expense"})

\* C34: a virtual top-up stays a pair: every Virtual Top-up Credit has its Virtual
\* Expense Debit of the same agent and amount, every Virtual Expense has its Credit,
\* and the two together add nothing to any agent's balance.
C34_VirtualTopUpNetZero ==
  /\ \A i \in DOMAIN ledger :
       ledger[i].type = "Virtual Top-up"
       => \E j \in DOMAIN ledger :
            /\ ledger[j].id = ledger[i].id + 1 /\ ledger[j].type = "Virtual Expense"
            /\ ledger[j].agent = ledger[i].agent /\ ledger[j].amount = ledger[i].amount
  /\ \A j \in DOMAIN ledger :
       ledger[j].type = "Virtual Expense"
       => \E i \in DOMAIN ledger :
            /\ ledger[i].id = ledger[j].id - 1 /\ ledger[i].type = "Virtual Top-up"
            /\ ledger[i].agent = ledger[j].agent /\ ledger[i].amount = ledger[j].amount
  /\ \A a \in Agents : FoldBalance(VirtualEntries(ledger), a) = 0

\* C35: a trip is In Dispute exactly when an Open dispute exists for it.
C35_InDisputeIffOpenDispute ==
  \A t \in TripIds :
    (trips[t].status = "In Dispute")
    <=> (\E d \in DOMAIN disputes :
           disputes[d].tripId = t /\ disputes[d].status = "Open")

\* The entries of one type that closing posted for a trip.
CloseEntryCount(led, t, type) ==
  Cardinality({i \in 1..Len(led) : led[i].tripId = t /\ led[i].type = type})

\* C36: closing takes effect once per trip: the ledger never holds more than one
\* Trip Closed entry or more than one Beta/Batta Credit entry of a trip, and once a
\* trip is closed its finalBalance and closedAt are never written again.
C36_CloseEffectsOnce ==
  /\ [](\A t \in TripIds :
          /\ CloseEntryCount(ledger, t, "Trip Closed") <= 1
          /\ CloseEntryCount(ledger, t, "Beta/Batta Credit") <= 1)
  /\ [][\A t \in TripIds :
          (trips[t].status = "Completed" /\ trips[t].closedAt # 0)
          => /\ trips'[t].finalBalance = trips[t].finalBalance
             /\ trips'[t].closedAt = trips[t].closedAt]_vars

\* The Settlement Debit entries of an agent for a trip, by what they were written as.
SettlementEntries(led, t, agent, kind) ==
  {i \in 1..Len(led) :
     /\ led[i].tripId = t /\ led[i].agent = agent
     /\ led[i].type = "Settlement" /\ led[i].direction = "Debit"
     /\ led[i].description.kind = kind}

\* C37: right after a successful updateDeductions by an agent on an Active trip, the
\* agent's additions Settlement Debit entry of the trip carries the trip's current
\* total of additive deductions and the beta entry carries the current beta; a bucket
\* that is now zero has no entry with another amount left. Stated for the agents and
\* LR numbers whose text does not itself read as Beta or Batta.
C37_SettlementTracksDeductions ==
  \A t \in TripIds :
    (/\ last.op = "updateDeductions" /\ last.ok /\ last.trip = t
     /\ last.agent # None
     /\ ~DescMatchesBeta(AdditionsDesc(trips[t], last.agent))
     /\ trips[t].status = "Active")
    => LET total == AdditiveTotal(trips[t].deductions)
           betaAmount == trips[t].deductions["beta"]
           adds == SettlementEntries(ledger, t, last.agent, "additions")
           betas == SettlementEntries(ledger, t, last.agent, "beta")
       IN /\ \A i \in adds : ledger[i].amount = total
          /\ \A i \in betas : ledger[i].amount = betaAmount
          /\ total > 0 => adds # {}
          /\ betaAmount > 0 => betas # {}

\* C38: top-ups and accepted transfers, overlapping or not, never leave an agent's
\* folded balance below zero.
C38_NoOverdraw ==
  \A a \in Agents : FoldBalance(ledger, a) >= 0

\* C39: after any transfers and amendments every Agent Transfer entry has its twin
\* with the same amount and the opposite direction, so the pairs add nothing to the
\* sum of the agents' balances.
C39_TransferPairsStayEqual ==
  \A i \in 1..Len(ledger) :
    ledger[i].type = "Agent Transfer"
      => \E j \in 1..Len(ledger) :
           /\ ledger[j].id = TwinId(ledger[i]) /\ ledger[j].type = "Agent Transfer"
           /\ ledger[j].amount = ledger[i].amount
           /\ ledger[j].direction # ledger[i].direction

====
